---- MODULE Spec2Model ----
(***************************************************************************)
(* Task scheduling and persistence core of the personal dashboard:         *)
(*   dashboard/core/task.py          next-run calculator, schedule store   *)
(*   dashboard/core/task_manager.py  timer registry, registered tasks      *)
(*   dashboard/core/db.py            session_scope (commit / rollback)     *)
(*                                                                         *)
(* Timestamps are naive UTC datetimes, held as a number of ticks since     *)
(* 2024-01-01T00:00:00; one second is Res ticks.                           *)
(***************************************************************************)
EXTENDS Integers, Sequences, FiniteSets, TLC

\* ------------------------------------------------------------------------
\* Bounds of the model
\* ------------------------------------------------------------------------

\* ticks per second (sub-second resolution of datetime)
Res == 2

\* timer objects alive at the same time
MaxTimers == 3

\* the clock runs for this many seconds after the start
Horizon == 3700

\* ------------------------------------------------------------------------
\* Optional values and exceptions
\* ------------------------------------------------------------------------

\* Python None where a timestamp is expected
None == -1

\* a ValueError raised by datetime.replace / int()
ValueError == -2

\* Python None where a string, a dict or a tuple is expected
Null == "None"

\* ------------------------------------------------------------------------
\* datetime: calendar arithmetic on ticks
\* ------------------------------------------------------------------------

EpochYear == 2024

SecondsPerDay == 86400

DayTicks == SecondsPerDay * Res

IsLeap(y) == (y % 4 = 0 /\ y % 100 # 0) \/ y % 400 = 0

DaysInYear(y) == IF IsLeap(y) THEN 366 ELSE 365

DaysInMonth(y, m) ==
    IF m = 2 THEN (IF IsLeap(y) THEN 29 ELSE 28)
    ELSE IF m \in {4, 6, 9, 11} THEN 30 ELSE 31

RECURSIVE DaysBeforeYear(_)
DaysBeforeYear(y) ==
    IF y <= EpochYear THEN 0 ELSE DaysBeforeYear(y - 1) + DaysInYear(y - 1)

RECURSIVE DaysBeforeMonth(_, _)
DaysBeforeMonth(y, m) ==
    IF m <= 1 THEN 0 ELSE DaysBeforeMonth(y, m - 1) + DaysInMonth(y, m - 1)

RECURSIVE YearOfDay(_, _)
YearOfDay(y, d) ==
    IF d < DaysInYear(y) THEN <<y, d>> ELSE YearOfDay(y + 1, d - DaysInYear(y))

RECURSIVE MonthOfDay(_, _, _)
MonthOfDay(y, m, d) ==
    IF d < DaysInMonth(y, m) THEN <<m, d>> ELSE MonthOfDay(y, m + 1, d - DaysInMonth(y, m))

\* the fields of the datetime that is t ticks after the epoch
Fields(t) ==
    LET days == t \div DayTicks
        rest == t % DayTicks
        yd   == YearOfDay(EpochYear, days)
        md   == MonthOfDay(yd[1], 1, yd[2])
        secs == rest \div Res
    IN  [year |-> yd[1], month |-> md[1], day |-> md[2] + 1,
         hour |-> secs \div 3600, minute |-> (secs % 3600) \div 60,
         second |-> secs % 60, sub |-> rest % Res]

\* datetime(year, month, day, hour, minute, second, microsecond) as ticks
DateTime(f) ==
    (DaysBeforeYear(f.year) + DaysBeforeMonth(f.year, f.month) + (f.day - 1)) * DayTicks
    + ((f.hour * 3600 + f.minute * 60 + f.second) * Res) + f.sub

\* the range checks of the datetime constructor
ValidFields(f) ==
    /\ f.month \in 1..12
    /\ f.day >= 1 /\ f.day <= DaysInMonth(f.year, f.month)
    /\ f.hour \in 0..23
    /\ f.minute \in 0..59
    /\ f.second \in 0..59

\* datetime.replace(**changes): a new datetime, or ValueError
Replace(t, changes) ==
    LET old == Fields(t)
        new == [k \in DOMAIN old |-> IF k \in DOMAIN changes THEN changes[k] ELSE old[k]]
    IN  IF ValidFields(new) THEN DateTime(new) ELSE ValueError

\* timedelta
Seconds(n) == n * Res

Days(n) == n * DayTicks

\* ------------------------------------------------------------------------
\* str / int: a string is a sequence of one-character strings
\* ------------------------------------------------------------------------

Digits == <<"0", "1", "2", "3", "4", "5", "6", "7", "8", "9">>

IsDigit(c) == \E i \in 1..10 : Digits[i] = c

DigitVal(c) == (CHOOSE i \in 1..10 : Digits[i] = c) - 1

\* str.strip(): drop leading and trailing blanks
RECURSIVE LStrip(_)
LStrip(s) == IF s # <<>> /\ Head(s) = " " THEN LStrip(Tail(s)) ELSE s

RECURSIVE RStrip(_)
RStrip(s) ==
    IF s # <<>> /\ s[Len(s)] = " " THEN RStrip(SubSeq(s, 1, Len(s) - 1)) ELSE s

Strip(s) == RStrip(LStrip(s))

\* str.split(sep): the pieces between the separators, at least one piece
RECURSIVE SplitFrom(_, _, _)
SplitFrom(s, sep, cur) ==
    IF s = <<>> THEN <<cur>>
    ELSE IF Head(s) = sep THEN <<cur>> \o SplitFrom(Tail(s), sep, <<>>)
    ELSE SplitFrom(Tail(s), sep, Append(cur, Head(s)))

Split(s, sep) == SplitFrom(s, sep, <<>>)

RECURSIVE DigitsValue(_, _)
DigitsValue(s, acc) ==
    IF s = <<>> THEN acc ELSE DigitsValue(Tail(s), acc * 10 + DigitVal(Head(s)))

\* int(str): the decimal value of a blank-padded digit string, else ValueError
ParseInt(s) ==
    LET t == Strip(s)
    IN  IF t # <<>> /\ \A i \in 1..Len(t) : IsDigit(t[i])
        THEN DigitsValue(t, 0) ELSE ValueError

\* ------------------------------------------------------------------------
\* dashboard/core/task.py: TaskType and compute_next_run
\* ------------------------------------------------------------------------

DAILY == "daily"

HOURLY == "hourly"

INTERVAL_SECONDS == "interval_seconds"

MONTHLY == "monthly"

\* dict.get(key, default); a schedule_config is a function on its keys,
\* the empty function is the empty dict (falsy, like None)
Get(cfg, key, default) == IF key \in DOMAIN cfg THEN cfg[key] ELSE default

Truthy(cfg) == DOMAIN cfg # {}

\* the "HH:MM" parsing shared by the daily and monthly branches:
\* <<hour, minute>>, either of them ValueError when its int() raises
ParseTime(time_str) ==
    LET parts  == Split(Strip(time_str), ":")
        hour   == ParseInt(parts[1])
        minute == IF Len(parts) > 1 THEN ParseInt(parts[2]) ELSE 0
    IN  <<hour, minute>>

Raises(hm) == hm[1] = ValueError \/ hm[2] = ValueError

\* the daily branch with "<" in place of "<=": a last run at HH:MM:00 exactly
\* gives that same instant
DailyNextRun_SameInstant(schedule_config, last_run) ==
    LET hm == ParseTime(Get(schedule_config, "time", <<"0", "0", ":", "0", "0">>))
    IN  IF Raises(hm) THEN ValueError
        ELSE LET next_run == Replace(last_run,
                    [hour |-> hm[1], minute |-> hm[2], second |-> 0, sub |-> 0])
             IN  IF next_run = ValueError THEN ValueError
                 ELSE IF next_run < last_run THEN next_run + Days(1)
                 ELSE next_run

DailyNextRun(schedule_config, last_run) ==
    LET hm == ParseTime(Get(schedule_config, "time", <<"0", "0", ":", "0", "0">>))
    IN  IF Raises(hm) THEN ValueError
        ELSE LET next_run == Replace(last_run,
                    [hour |-> hm[1], minute |-> hm[2], second |-> 0, sub |-> 0])
             IN  IF next_run = ValueError THEN ValueError
                 ELSE IF next_run <= last_run THEN next_run + Days(1)
                 ELSE next_run

\* the monthly branch without the step into the next year after December
MonthlyNextRun_NoYearRoll(schedule_config, last_run) ==
    LET day == Get(schedule_config, "day", 1)
        hm  == ParseTime(Get(schedule_config, "time", <<"0", "0", ":", "0", "0">>))
    IN  IF Raises(hm) THEN ValueError
        ELSE LET next_run == Replace(last_run,
                    [day |-> day, hour |-> hm[1], minute |-> hm[2],
                     second |-> 0, sub |-> 0])
             IN  IF next_run = ValueError THEN ValueError
                 ELSE IF next_run <= last_run
                      THEN IF Fields(next_run).month = 12
                           THEN Replace(next_run, [month |-> 1])
                           ELSE Replace(next_run,
                                    [month |-> Fields(next_run).month + 1])
                      ELSE next_run

MonthlyNextRun(schedule_config, last_run) ==
    LET day == Get(schedule_config, "day", 1)
        hm  == ParseTime(Get(schedule_config, "time", <<"0", "0", ":", "0", "0">>))
    IN  IF Raises(hm) THEN ValueError
        ELSE LET next_run == Replace(last_run,
                    [day |-> day, hour |-> hm[1], minute |-> hm[2],
                     second |-> 0, sub |-> 0])
             IN  IF next_run = ValueError THEN ValueError
                 ELSE IF next_run <= last_run
                      THEN IF Fields(next_run).month = 12
                           THEN Replace(next_run,
                                    [year |-> Fields(next_run).year + 1, month |-> 1])
                           ELSE Replace(next_run,
                                    [month |-> Fields(next_run).month + 1])
                      ELSE next_run

\* compute_next_run(schedule_type, schedule_config, last_run), evaluated when
\* the clock shows now: the next run, or ValueError when the function raises
\* compute_next_run that enters the daily, interval and monthly branches
\* without asking whether schedule_config is empty
compute_next_run_NoEmptyCheck(schedule_type, schedule_config, last_run_arg, now_) ==
    LET last_run == IF last_run_arg = None THEN now_ ELSE last_run_arg
    IN  IF schedule_type = DAILY
        THEN DailyNextRun(schedule_config, last_run)
        ELSE IF schedule_type = HOURLY
        THEN last_run + Seconds(3600)
        ELSE IF schedule_type = INTERVAL_SECONDS
        THEN last_run + Seconds(Get(schedule_config, "interval_seconds", 86400))
        ELSE IF schedule_type = MONTHLY
        THEN MonthlyNextRun(schedule_config, last_run)
        ELSE last_run + Days(1)

compute_next_run(schedule_type, schedule_config, last_run_arg, now_) ==
    LET last_run == IF last_run_arg = None THEN now_ ELSE last_run_arg
    IN  IF schedule_type = DAILY /\ Truthy(schedule_config)
        THEN DailyNextRun(schedule_config, last_run)
        ELSE IF schedule_type = HOURLY
        THEN last_run + Seconds(3600)
        ELSE IF schedule_type = INTERVAL_SECONDS /\ Truthy(schedule_config)
        THEN last_run + Seconds(Get(schedule_config, "interval_seconds", 86400))
        ELSE IF schedule_type = MONTHLY /\ Truthy(schedule_config)
        THEN MonthlyNextRun(schedule_config, last_run)
        ELSE last_run + Days(1)

\* ------------------------------------------------------------------------
\* State
\* ------------------------------------------------------------------------

VARIABLES
    now,                \* the clock, datetime.now() in ticks
    store,              \* task_schedules table: component_name -> row
    tasks,              \* TaskManager.tasks: name -> Timer
    timers,             \* the threading.Timer objects, by identity
    registered_tasks,   \* TaskManager._registered_tasks: name -> runnable
    registered_config,  \* TaskManager._registered_config: name -> (config, config_data)
    stopped,            \* TaskManager.stop() was called in this process
    boots,              \* number of process restarts so far
    calls,              \* number of calls made by the UI thread in this process
    pc,                 \* where each thread is inside a call of schedule_task
    table,              \* task_schedules as the database holds it: a list of rows
    sessions,           \* the SQLAlchemy session each thread has open
    result_queue,       \* TaskManager.result_queue: (task_name, payload) pairs
    handled,            \* the items taken from result_queue and the components called with them
    ui,                 \* where the UI thread is in its drain cycle
    computed,           \* a call of compute_next_run: its arguments and what it gave
    readable            \* whether session_scope can open the database

\* the variables of the sessions and of the result queue
sessionVars == <<table, sessions>>

queueVars == <<result_queue, handled, ui>>

vars == <<now, store, tasks, timers, registered_tasks, registered_config,
          stopped, boots, calls, pc, sessionVars, queueVars, computed, readable>>

\* calls of the UI thread between two process starts
MaxCalls == 3

\* restarts of the process within one behaviour
MaxBoots == 1

\* names under which timers are armed
Names == {"Prayer Times", "Weather"}

\* names of the tasks that are registered and have a row in the table
TaskNames == {"Prayer Times"}

\* names under which components arm timers of their own
PlainNames == {"Weather"}

TimerIds == 1..MaxTimers

\* threads: 0 is the UI thread, i is the thread of Timer i
UIThread == 0

ThreadIds == {UIThread} \cup TimerIds

\* a thread that is not inside schedule_task
Idle == [at |-> "idle", name |-> "", delay |-> 0, one_time |-> TRUE, id |-> 0]

\* the clock at process start: 2024-01-31T06:59:59
StartTime ==
    DateTime([year |-> 2024, month |-> 1, day |-> 31,
              hour |-> 6, minute |-> 59, second |-> 59, sub |-> 0])

EndTime == StartTime + Seconds(Horizon)

\* the runnable a component registers: the run method of its task object
WeatherTask == "WeatherTask.run"

PrayerTimesTask == "PrayerTimesTask.run"

RunnableOf(name) == IF name = "Weather" THEN WeatherTask ELSE PrayerTimesTask

\* (schedule_type, schedule_config) pairs the callers pass
SchedInputs ==
    { <<INTERVAL_SECONDS, [interval_seconds |-> 3600]>>,
      <<MONTHLY, [day |-> 31, time |-> <<"0", "0", ":", "0", "0">>]>> }

\* (config, config_data) pairs the callers pass
ConfigInputs == { <<"config", "config_data">>, <<Null, Null>> }

\* (delay, one_time) of the timers that components arm directly:
\* an immediate single fetch, a recurring update
PlainInputs == { <<0, TRUE>>, <<3600, FALSE>> }

\* a slot that holds no Timer object
NoTimer ==
    [name |-> "", callback |-> "", delay |-> 0, one_time |-> TRUE,
     scheduled_time |-> None, last_run |-> None, state |-> "free", finished |-> FALSE,
     outcome |-> "", update |-> ""]

\* Timer states: "new" (constructed), "pending" (started, waiting),
\* "running" (function called, runnable or callback in flight),
\* "ran" (runnable returned or raised, re-arm still to do), "done";
\* finished is the Timer's event, set by cancel() and after the function ran;
\* outcome and update say how the runnable called by the timer ended and
\* what became of its update_after_run call ("none": not reached)
IsPending(t) == t.state = "pending" /\ ~t.finished

IsInFlight(t) == t.state \in {"running", "ran"}

\* a Timer object whose thread has ended and that nothing refers to any more
IsGarbage(tk, tm, i) ==
    /\ tm[i].state = "done"
    /\ \A n \in DOMAIN tk : tk[n] # i

Collect(tk, tm) == [i \in TimerIds |-> IF IsGarbage(tk, tm, i) THEN NoTimer ELSE tm[i]]

FreeIds(tm) == {i \in TimerIds : tm[i].state = "free"}

\* dict assignment d[k] = v
Put(d, k, v) == [x \in DOMAIN d \cup {k} |-> IF x = k THEN v ELSE d[x]]

\* the threads that open sessions on the table at the same time: the
\* thread of a fired timer and the thread of another caller
StoreThreads == {"timer thread", "caller thread"}

\* a thread that has no session open
NoSession ==
    [op |-> "", at |-> "idle", name |-> "", args |-> <<>>, loaded |-> <<>>,
     attrs |-> <<>>, result |-> ""]

\* no call of compute_next_run made yet
NoCall == [at |-> "none", schedule_type |-> "", schedule_config |-> <<>>,
           last_run |-> None, result |-> None]

\* the state of a process that has started, apart from the call under study
Started ==
    /\ now = StartTime
    /\ table = <<>>
    /\ sessions = [th \in StoreThreads |-> NoSession]
    /\ result_queue = <<>>
    /\ handled = <<>>
    /\ ui = [at |-> "starting", after |-> None]
    /\ store = <<>>
    /\ tasks = <<>>
    /\ timers = [i \in TimerIds |-> NoTimer]
    /\ registered_tasks = <<>>
    /\ registered_config = <<>>
    /\ stopped = FALSE
    /\ boots = 0
    /\ calls = 0
    /\ pc = [th \in ThreadIds |-> Idle]
    /\ readable = TRUE

Init == Started /\ computed = NoCall

\* ------------------------------------------------------------------------
\* dashboard/core/task.py: the schedule store
\* ------------------------------------------------------------------------

\* get_next_run_from_db that reads the row whether or not the session works
get_next_run_from_db_NoExcept(st, component_name) ==
    IF component_name \in DOMAIN st /\ st[component_name].next_run_at # None
    THEN st[component_name].next_run_at
    ELSE None

\* get_next_run_from_db(component_name), reading the table st; when the
\* session raises (readable is FALSE) the except branch gives None
get_next_run_from_db(st, component_name) ==
    IF ~readable
    THEN None
    ELSE IF component_name \in DOMAIN st /\ st[component_name].next_run_at # None
    THEN st[component_name].next_run_at
    ELSE None

\* upsert_task_schedule that takes next_run_at as given, also on an existing row
upsert_task_schedule_Overwrite(st, component_name, schedule_type, schedule_config, next_run_at, last_run_at, last_error) ==
    Put(st, component_name,
        [schedule_type |-> schedule_type,
         schedule_config |-> schedule_config,
         next_run_at |-> next_run_at,
         last_run_at |-> IF component_name \in DOMAIN st /\ last_run_at = None
                         THEN st[component_name].last_run_at ELSE last_run_at,
         last_error |-> IF component_name \in DOMAIN st /\ last_error = Null
                        THEN st[component_name].last_error ELSE last_error])

\* upsert_task_schedule that works out next_run_at from the new schedule
\* when it is given none for an existing row
upsert_task_schedule_Recompute(st, component_name, schedule_type, schedule_config, next_run_at, last_run_at, last_error) ==
    IF component_name \in DOMAIN st
    THEN LET row == st[component_name]
             next_run == compute_next_run(schedule_type, schedule_config, row.last_run_at, now)
         IN  Put(st, component_name,
                 [row EXCEPT
                    !.schedule_type = schedule_type,
                    !.schedule_config = schedule_config,
                    !.next_run_at = IF next_run_at # None THEN next_run_at
                                    ELSE IF next_run = ValueError THEN None
                                    ELSE next_run,
                    !.last_run_at = IF last_run_at # None THEN last_run_at ELSE @,
                    !.last_error = IF last_error # Null THEN last_error ELSE @])
    ELSE Put(st, component_name,
             [schedule_type |-> schedule_type,
              schedule_config |-> schedule_config,
              next_run_at |-> next_run_at,
              last_run_at |-> last_run_at,
              last_error |-> last_error])

\* upsert_task_schedule(...) on the table st: the table after the session
\* has committed (the audit columns created_at and updated_at are not part
\* of the model)
upsert_task_schedule(st, component_name, schedule_type, schedule_config, next_run_at, last_run_at, last_error) ==
    IF component_name \in DOMAIN st
    THEN LET row == st[component_name]
         IN  Put(st, component_name,
                 [row EXCEPT
                    !.schedule_type = schedule_type,
                    !.schedule_config = schedule_config,
                    !.next_run_at = IF next_run_at # None THEN next_run_at ELSE @,
                    !.last_run_at = IF last_run_at # None THEN last_run_at ELSE @,
                    !.last_error = IF last_error # Null THEN last_error ELSE @])
    ELSE Put(st, component_name,
             [schedule_type |-> schedule_type,
              schedule_config |-> schedule_config,
              next_run_at |-> next_run_at,
              last_run_at |-> last_run_at,
              last_error |-> last_error])

\* update_after_run that inserts a row when the name has none
update_after_run_Inserts(st, component_name) ==
    IF component_name \notin DOMAIN st
    THEN [store |-> Put(st, component_name,
                        [schedule_type |-> HOURLY,
                         schedule_config |-> <<>>,
                         next_run_at |-> now + Seconds(3600),
                         last_run_at |-> now,
                         last_error |-> Null]),
          raised |-> FALSE]
    ELSE LET row == st[component_name]
             next_run == compute_next_run(row.schedule_type, row.schedule_config, now, now)
         IN  IF next_run = ValueError
             THEN [store |-> st, raised |-> TRUE]
             ELSE [store |-> Put(st, component_name,
                                 [row EXCEPT !.last_run_at = now,
                                             !.last_error = Null,
                                             !.next_run_at = next_run]),
                   raised |-> FALSE]

\* update_after_run that records the run and leaves next_run_at as it was
update_after_run_KeepNextRun(st, component_name) ==
    IF component_name \notin DOMAIN st
    THEN [store |-> st, raised |-> FALSE]
    ELSE [store |-> Put(st, component_name,
                        [st[component_name] EXCEPT !.last_run_at = now,
                                                   !.last_error = Null]),
          raised |-> FALSE]

\* update_after_run(component_name) on the table st: the table after the
\* session, and whether the call raised (session_scope rolls back and
\* re-raises what compute_next_run raised, or what the session itself
\* raised when the store cannot be read)
update_after_run(st, component_name) ==
    IF ~readable
    THEN [store |-> st, raised |-> TRUE]
    ELSE IF component_name \notin DOMAIN st
    THEN [store |-> st, raised |-> FALSE]
    ELSE LET row == st[component_name]
             next_run == compute_next_run(row.schedule_type, row.schedule_config, now, now)
         IN  IF next_run = ValueError
             THEN [store |-> st, raised |-> TRUE]
             ELSE [store |-> Put(st, component_name,
                                 [row EXCEPT !.last_run_at = now,
                                             !.last_error = Null,
                                             !.next_run_at = next_run]),
                   raised |-> FALSE]

\* a call made by the UI thread of the running process
UICall ==
    /\ ~stopped
    /\ calls < MaxCalls
    /\ calls' = calls + 1

\* BaseTask.ensure_scheduled(next_run_at) of a task object built with
\* (component_name, schedule_type, schedule_config)
ensure_scheduled(component_name, schedule_type, schedule_config, next_run_at) ==
    /\ UICall
    /\ store' = upsert_task_schedule(store, component_name, schedule_type,
                                     schedule_config, next_run_at, None, Null)
    /\ UNCHANGED <<computed, readable, sessionVars, queueVars, now, tasks, timers, registered_tasks, registered_config,
                   stopped, boots, pc>>

\* a direct call of upsert_task_schedule that records the error of a failed
\* run of a task that has a row, with the row's own schedule
record_error(component_name, last_error) ==
    /\ UICall
    /\ component_name \in DOMAIN store
    /\ store' = upsert_task_schedule(store, component_name,
                                     store[component_name].schedule_type,
                                     store[component_name].schedule_config,
                                     None, None, last_error)
    /\ UNCHANGED <<computed, readable, sessionVars, queueVars, now, tasks, timers, registered_tasks, registered_config,
                   stopped, boots, pc>>

\* ------------------------------------------------------------------------
\* dashboard/core/task_manager.py: the timer registry
\* ------------------------------------------------------------------------

\* Timer.cancel()
Cancel(tm, i) == [tm EXCEPT ![i].finished = TRUE]

Min(S) == CHOOSE x \in S : \A y \in S : x <= y

\* Timer(delay, self._run_task, args=(name, callback, delay, one_time))
\* with scheduled_time set, not yet started
NewTimer(name, callback, delay, one_time) ==
    [name |-> name, callback |-> callback, delay |-> delay, one_time |-> one_time,
     scheduled_time |-> now + Seconds(delay), last_run |-> None,
     state |-> "new", finished |-> FALSE, outcome |-> "", update |-> ""]

\* Timer.start()
Start(tm, i) == [tm EXCEPT ![i].state = "pending"]

\* the slot the model gives to a Timer object created for name: the lowest
\* one that is free once the timer name had before is no longer referred to
\* (0 when the model has no slot left)
NewId(tk, tm, name) ==
    LET rest == [n \in DOMAIN tk \ {name} |-> tk[n]]
        free == FreeIds(Collect(rest, tm))
    IN  IF free = {} THEN 0 ELSE Min(free)

\* schedule_task without the cancel of the timer the name had
CancelExisting_NoCancel(tk, tm, name) == tm

\* if name in self.tasks: self.tasks[name].cancel()
CancelExisting(tk, tm, name) == IF name \in DOMAIN tk THEN Cancel(tm, tk[name]) ELSE tm

\* schedule_task(name, callback, delay, one_time) run without interruption on
\* the registry (tk, tm): the registry afterwards; ok is FALSE when the
\* model has no slot left for the new Timer object
schedule_task(tk, tm, name, callback, delay, one_time) ==
    LET tm1 == CancelExisting(tk, tm, name)
        id  == NewId(tk, tm1, name)
    IN  IF id = 0
        THEN [ok |-> FALSE, tasks |-> tk, timers |-> tm]
        ELSE [ok |-> TRUE,
              tasks |-> Put(tk, name, id),
              timers |-> Start([tm1 EXCEPT ![id] = NewTimer(name, callback, delay, one_time)],
                               id)]

\* int(delta) of a difference of d ticks: whole seconds, truncated towards 0
WholeSeconds(d) == IF d >= 0 THEN d \div Res ELSE -((-d) \div Res)

Max(a, b) == IF a >= b THEN a ELSE b

\* the delay without max(0, .)
RegisteredDelay_NoClamp(next_run) ==
    IF next_run = None THEN 0 ELSE WholeSeconds(next_run - now)

\* the delay schedule_registered_task computes from the stored next run
RegisteredDelay(next_run) ==
    IF next_run = None THEN 0 ELSE Max(0, WholeSeconds(next_run - now))

\* schedule_registered_task without the check that a runnable is registered
schedule_registered_task_NoCheck(rt, st, tk, tm, rc, component_name, cfg) ==
    LET delay == RegisteredDelay(get_next_run_from_db(st, component_name))
        r     == schedule_task(tk, tm, component_name, "registered", delay, TRUE)
    IN  [ok |-> r.ok, tasks |-> r.tasks, timers |-> r.timers,
         config |-> Put(rc, component_name, cfg)]

\* schedule_registered_task(component_name, config, config_data) with the
\* registered runnables rt, the table st, the registry (tk, tm) and the
\* stored configs rc
schedule_registered_task(rt, st, tk, tm, rc, component_name, cfg) ==
    IF component_name \notin DOMAIN rt
    THEN [ok |-> TRUE, tasks |-> tk, timers |-> tm, config |-> rc]
    ELSE LET delay == RegisteredDelay(get_next_run_from_db(st, component_name))
             r     == schedule_task(tk, tm, component_name, "registered", delay, TRUE)
         IN  [ok |-> r.ok, tasks |-> r.tasks, timers |-> r.timers,
              config |-> Put(rc, component_name, cfg)]

\* get_active_timers() on the registry (tk, tm): the (name, next_run_at) entries
ActiveTimers(tk, tm) ==
    { <<n, tm[tk[n]].scheduled_time>> :
        n \in {m \in DOMAIN tk : tm[tk[m]].scheduled_time # None} }

get_active_timers == ActiveTimers(tasks, timers)

\* register_task(component_name, runnable)
register_task(component_name) ==
    /\ UICall
    /\ registered_tasks' = Put(registered_tasks, component_name, RunnableOf(component_name))
    /\ UNCHANGED <<computed, readable, sessionVars, queueVars, now, store, tasks, timers, registered_config, stopped, boots, pc>>

\* a call of schedule_task by a component, with a callback of its own
ScheduleTask(name, delay, one_time) ==
    LET r == schedule_task(tasks, timers, name, "plain", delay, one_time)
    IN  /\ UICall
        /\ r.ok
        /\ tasks' = r.tasks
        /\ timers' = Collect(r.tasks, r.timers)
        /\ UNCHANGED <<computed, readable, sessionVars, queueVars, now, store, registered_tasks, registered_config,
                       stopped, boots, pc>>

\* a call of schedule_registered_task by the UI thread
ScheduleRegisteredTask(component_name, cfg) ==
    LET r == schedule_registered_task(registered_tasks, store, tasks, timers,
                                      registered_config, component_name, cfg)
    IN  /\ UICall
        /\ r.ok
        /\ tasks' = r.tasks
        /\ timers' = Collect(r.tasks, r.timers)
        /\ registered_config' = r.config
        /\ UNCHANGED <<computed, readable, sessionVars, queueVars, now, store, registered_tasks, stopped, boots, pc>>

\* ------------------------------------------------------------------------
\* The timer threads
\* ------------------------------------------------------------------------

\* self.tasks[name].last_run = now, when name is in self.tasks
SetLastRun(tk, tm, name) ==
    IF name \in DOMAIN tk THEN [tm EXCEPT ![tk[name]].last_run = now] ELSE tm

\* the Timer thread ends: finished is set
Done(tm, i) == [tm EXCEPT ![i].state = "done", ![i].finished = TRUE]

\* self._registered_config.get(component_name, (None, None))
StoredConfig(rc, name) == IF name \in DOMAIN rc THEN rc[name] ELSE <<Null, Null>>

\* a fire that calls the runnable whatever the stored config is
Fire_IgnoresNone(i) ==
    LET t == timers[i]
    IN  /\ IsPending(t)
        /\ now >= t.scheduled_time
        /\ timers' =
             IF t.callback = "registered" /\ t.name \notin DOMAIN registered_tasks
             THEN [timers EXCEPT ![i].state = "ran"]
             ELSE [timers EXCEPT ![i].state = "running"]
        /\ UNCHANGED <<computed, readable, sessionVars, queueVars, now, store, tasks, registered_tasks, registered_config,
                       stopped, boots, calls, pc>>

\* Timer i fires: _run_task calls the callback. A registered callback enters
\* _run_registered_and_reschedule and calls the runnable, unless the stored
\* config is None: then it returns and _run_task finishes.
Fire(i) ==
    LET t == timers[i]
    IN  /\ IsPending(t)
        /\ now >= t.scheduled_time
        /\ timers' =
             IF t.callback = "registered"
             THEN IF t.name \in DOMAIN registered_tasks
                  THEN IF StoredConfig(registered_config, t.name)[1] = Null
                       THEN Collect(tasks, Done(SetLastRun(tasks, timers, t.name), i))
                       ELSE [timers EXCEPT ![i].state = "running"]
                  ELSE [timers EXCEPT ![i].state = "ran"]
             ELSE [timers EXCEPT ![i].state = "running"]
        /\ UNCHANGED <<computed, readable, sessionVars, queueVars, now, store, tasks, registered_tasks, registered_config,
                       stopped, boots, calls, pc>>

\* the thread of a cancelled Timer wakes up and ends without calling the function
Expire(i) ==
    /\ timers[i].state = "pending"
    /\ timers[i].finished
    /\ timers' = Collect(tasks, Done(timers, i))
    /\ UNCHANGED <<computed, readable, sessionVars, queueVars, now, store, tasks, registered_tasks, registered_config,
                   stopped, boots, calls, pc>>

\* how a call of a runnable ends
Outcomes == {"ok", "fetch_failed", "raise"}

\* whether the runnable reaches its update_after_run call:
\* PrayerTimesTask.run returns early when the backend failed,
\* WeatherTask.run goes on with the error data
CallsUpdate(runnable, outcome) ==
    \/ outcome = "ok"
    \/ outcome = "fetch_failed" /\ runnable = WeatherTask

\* a call of runnable for component_name that ends with outcome: the table
\* afterwards and what became of the update_after_run call
RunnableEffect(st, component_name, outcome) ==
    IF CallsUpdate(RunnableOf(component_name), outcome)
    THEN LET u == update_after_run(st, component_name)
         IN  [store |-> u.store,
              update |-> IF u.raised THEN "raised" ELSE "committed"]
    ELSE [store |-> st, update |-> "none"]

\* the runnable called by timer i returns or raises
RunnableFinish(i, outcome) ==
    LET t == timers[i]
        e == RunnableEffect(store, t.name, outcome)
    IN  /\ t.state = "running"
        /\ t.callback = "registered"
        /\ store' = e.store
        /\ timers' = [timers EXCEPT ![i].state = "ran",
                                    ![i].outcome = outcome,
                                    ![i].update = e.update]
        /\ UNCHANGED <<computed, readable, sessionVars, queueVars, now, tasks, registered_tasks, registered_config,
                       stopped, boots, calls, pc>>

\* a re-arm that is skipped when the table holds no next run
Reschedule_OnlyWithNextRun(rt, st, tk, tm, rc, component_name) ==
    LET cfg == StoredConfig(rc, component_name)
    IN  IF cfg[1] # Null /\ get_next_run_from_db(st, component_name) # None
        THEN schedule_registered_task(rt, st, tk, tm, rc, component_name, cfg)
        ELSE [ok |-> TRUE, tasks |-> tk, timers |-> tm, config |-> rc]

\* what _run_registered_and_reschedule does after the runnable: it reads the
\* stored config again and calls schedule_registered_task unless it is None
Reschedule(rt, st, tk, tm, rc, component_name) ==
    LET cfg == StoredConfig(rc, component_name)
    IN  IF cfg[1] # Null
        THEN schedule_registered_task(rt, st, tk, tm, rc, component_name, cfg)
        ELSE [ok |-> TRUE, tasks |-> tk, timers |-> tm, config |-> rc]

\* timer i, whose runnable has ended, re-arms; then _run_task finishes
Rearm(i) ==
    LET t == timers[i]
        r == Reschedule(registered_tasks, store, tasks, timers, registered_config, t.name)
    IN  /\ t.state = "ran"
        /\ r.ok
        /\ tasks' = r.tasks
        /\ timers' = Collect(r.tasks, Done(SetLastRun(r.tasks, r.timers, t.name), i))
        /\ registered_config' = r.config
        /\ UNCHANGED <<computed, readable, sessionVars, queueVars, now, store, registered_tasks, stopped, boots, calls, pc>>

\* what _run_task does after a callback of a component returned normally:
\* last_run is set and a recurring timer is scheduled again
AfterCallback(tk, tm, t) ==
    LET tm1 == SetLastRun(tk, tm, t.name)
    IN  IF t.one_time
        THEN [ok |-> TRUE, tasks |-> tk, timers |-> tm1]
        ELSE schedule_task(tk, tm1, t.name, t.callback, t.delay, t.one_time)

\* an exception that leaves _run_task: Timer.run does not reach
\* self.finished.set()
OnException_Escapes(tk, tm, i) ==
    [ok |-> TRUE, tasks |-> tk, timers |-> [tm EXCEPT ![i].state = "done"]]

\* what _run_task does when the callback raised: except Exception, the
\* error is logged, nothing else; the Timer thread then ends
OnException(tk, tm, i) ==
    [ok |-> TRUE, tasks |-> tk, timers |-> Done(tm, i)]

\* the callback of a component's own timer returns or raises, and
\* _run_task finishes
PlainFinish(i, raised) ==
    LET t == timers[i]
        r == AfterCallback(tasks, timers, t)
        x == OnException(tasks, timers, i)
    IN  /\ t.state = "running"
        /\ t.callback = "plain"
        /\ IF raised
           THEN /\ tasks' = x.tasks
                /\ timers' = Collect(x.tasks, x.timers)
           ELSE /\ r.ok
                /\ tasks' = r.tasks
                /\ timers' = Collect(r.tasks, Done(r.timers, i))
        /\ UNCHANGED <<computed, readable, sessionVars, queueVars, now, store, registered_tasks, registered_config,
                       stopped, boots, calls, pc>>

\* run_task_now that arms the task again, as a fired timer does
run_task_now_Rearm(rt, st, tk, tm, rc, component_name) ==
    IF component_name \notin DOMAIN rt
    THEN [tasks |-> tk, timers |-> tm, config |-> rc, invoked |-> 0]
    ELSE LET r == schedule_registered_task(rt, st, tk, tm, rc, component_name,
                                           <<"config", "config_data">>)
         IN  [tasks |-> r.tasks, timers |-> r.timers, config |-> r.config,
              invoked |-> 1]

\* run_task_now(component_name, config, config_data): no runnable, warning
\* and return; else the runnable is called once in the caller's thread and
\* an exception of it is logged. What it leaves of tasks, the timers and
\* the stored config, and how often it called the runnable.
run_task_now(rt, st, tk, tm, rc, component_name) ==
    IF component_name \notin DOMAIN rt
    THEN [tasks |-> tk, timers |-> tm, config |-> rc, invoked |-> 0]
    ELSE [tasks |-> tk, timers |-> tm, config |-> rc, invoked |-> 1]

\* a call of run_task_now by the UI or API thread; the runnable ends with
\* outcome. One manual refresh may follow when the other calls are used up.
RunTaskNow(component_name, outcome) ==
    LET r == run_task_now(registered_tasks, store, tasks, timers, registered_config,
                          component_name)
    IN  /\ ~stopped
        /\ calls <= MaxCalls
        /\ calls' = calls + 1
        /\ store' = IF r.invoked = 1
                    THEN RunnableEffect(store, component_name, outcome).store
                    ELSE store
        /\ tasks' = r.tasks
        /\ timers' = r.timers
        /\ registered_config' = r.config
        /\ UNCHANGED <<computed, readable, sessionVars, queueVars, now, registered_tasks, stopped, boots, pc>>

\* stop(): cancel every timer in self.tasks
stop ==
    /\ UICall
    /\ timers' = [i \in TimerIds |->
                    IF \E n \in DOMAIN tasks : tasks[n] = i
                    THEN [timers[i] EXCEPT !.finished = TRUE] ELSE timers[i]]
    /\ stopped' = TRUE
    /\ UNCHANGED <<computed, readable, sessionVars, queueVars, now, store, tasks, registered_tasks, registered_config, boots, pc>>

\* calls the start-up of a component makes: register_task, ensure_scheduled,
\* schedule_registered_task
StartupCalls == 3

\* the process dies, is started again and the component of component_name
\* runs its start-up: the memory is lost, the table stays; then
\* register_task, ensure_scheduled without next_run_at and
\* schedule_registered_task
CrashRestart(component_name, schedule_type, schedule_config, cfg) ==
    LET rt == Put(<<>>, component_name, RunnableOf(component_name))
        st == upsert_task_schedule(store, component_name, schedule_type,
                                   schedule_config, None, None, Null)
        r  == schedule_registered_task(rt, st, <<>>, [i \in TimerIds |-> NoTimer],
                                       <<>>, component_name, cfg)
    IN  /\ boots < MaxBoots
        /\ boots' = boots + 1
        /\ registered_tasks' = rt
        /\ store' = st
        /\ tasks' = r.tasks
        /\ timers' = r.timers
        /\ registered_config' = r.config
        /\ stopped' = FALSE
        /\ calls' = StartupCalls
        /\ UNCHANGED <<computed, readable, sessionVars, queueVars, now, pc>>

\* times the clock may jump to: the next fire of a timer, the next run of a row
Targets ==
    {timers[i].scheduled_time : i \in {j \in TimerIds : IsPending(timers[j])}}
    \cup {store[n].next_run_at : n \in DOMAIN store}

\* time passes until the next fire time or next run
Jump ==
    /\ \E target \in Targets :
         /\ target > now
         /\ target <= EndTime
         /\ now' = target
    /\ UNCHANGED <<computed, readable, sessionVars, queueVars, store, tasks, timers, registered_tasks, registered_config,
                   stopped, boots, calls, pc>>

\* next_run_at arguments the callers pass to ensure_scheduled: none, and a
\* time one minute after the start that is not on a whole second
NextRunInputs == {None, StartTime + Seconds(60) + 1}

Next ==
    \/ \E n \in TaskNames : register_task(n)
    \/ \E n \in PlainNames, p \in PlainInputs : ScheduleTask(n, p[1], p[2])
    \/ \E n \in TaskNames, c \in ConfigInputs : ScheduleRegisteredTask(n, c)
    \/ \E n \in TaskNames, s \in SchedInputs, nr \in NextRunInputs :
         ensure_scheduled(n, s[1], s[2], nr)
    \/ \E n \in TaskNames : record_error(n, "error")
    \/ \E i \in TimerIds : Fire(i)
    \/ \E i \in TimerIds : Expire(i)
    \/ \E i \in TimerIds, o \in Outcomes : RunnableFinish(i, o)
    \/ \E i \in TimerIds : Rearm(i)
    \/ \E i \in TimerIds, raised \in BOOLEAN : PlainFinish(i, raised)
    \/ stop
    \/ \E n \in TaskNames, s \in SchedInputs :
         CrashRestart(n, s[1], s[2], <<"config", "config_data">>)
    \/ Jump

Spec == Init /\ [][Next]_vars

\* the registered task with manual refreshes: the calls of a component for
\* its task, run_task_now, the timer threads and the clock
NextManual ==
    \/ \E n \in TaskNames : register_task(n)
    \/ \E n \in TaskNames, c \in ConfigInputs : ScheduleRegisteredTask(n, c)
    \/ \E n \in TaskNames, s \in SchedInputs, nr \in NextRunInputs :
         ensure_scheduled(n, s[1], s[2], nr)
    \/ \E n \in TaskNames, o \in Outcomes : RunTaskNow(n, o)
    \/ \E i \in TimerIds : Fire(i)
    \/ \E i \in TimerIds : Expire(i)
    \/ \E i \in TimerIds, o \in Outcomes : RunnableFinish(i, o)
    \/ \E i \in TimerIds : Rearm(i)
    \/ Jump

SpecManual == Init /\ [][NextManual]_vars

\* ------------------------------------------------------------------------
\* schedule_task step by step: threads interleave inside it
\* ------------------------------------------------------------------------

\* the UI thread enters schedule_task(name, callback, delay, one_time)
RaceCall(name, delay, one_time) ==
    /\ UICall
    /\ pc[UIThread].at = "idle"
    /\ pc' = [pc EXCEPT ![UIThread] =
                [at |-> "check", name |-> name, delay |-> delay,
                 one_time |-> one_time, id |-> 0]]
    /\ UNCHANGED <<computed, readable, sessionVars, queueVars, now, store, tasks, timers, registered_tasks, registered_config,
                   stopped, boots>>

\* the callback of Timer i returns or raises inside _run_task, on the
\* thread of the timer: last_run is set; a recurring timer enters schedule_task
RaceCallbackEnd(i, raised) ==
    LET t == timers[i]
    IN  /\ t.state = "running"
        /\ t.callback = "plain"
        /\ pc[i].at = "idle"
        /\ IF raised
           THEN /\ timers' = Collect(tasks, Done(timers, i))
                /\ pc' = pc
           ELSE IF t.one_time
           THEN /\ timers' = Collect(tasks, Done(SetLastRun(tasks, timers, t.name), i))
                /\ pc' = pc
           ELSE /\ timers' = SetLastRun(tasks, timers, t.name)
                /\ pc' = [pc EXCEPT ![i] =
                            [at |-> "check", name |-> t.name, delay |-> t.delay,
                             one_time |-> t.one_time, id |-> 0]]
        /\ UNCHANGED <<computed, readable, sessionVars, queueVars, now, store, tasks, registered_tasks, registered_config,
                       stopped, boots, calls>>

\* if name in self.tasks
RaceCheck(th) ==
    /\ pc[th].at = "check"
    /\ pc' = [pc EXCEPT ![th].at =
                IF pc[th].name \in DOMAIN tasks THEN "cancel" ELSE "store"]
    /\ UNCHANGED <<computed, readable, sessionVars, queueVars, now, store, tasks, timers, registered_tasks, registered_config,
                   stopped, boots, calls>>

\* self.tasks[name].cancel()
RaceCancel(th) ==
    /\ pc[th].at = "cancel"
    /\ timers' = Cancel(timers, tasks[pc[th].name])
    /\ pc' = [pc EXCEPT ![th].at = "store"]
    /\ UNCHANGED <<computed, readable, sessionVars, queueVars, now, store, tasks, registered_tasks, registered_config,
                   stopped, boots, calls>>

\* timer = Timer(...); timer.scheduled_time = ...; self.tasks[name] = timer
RaceStore(th) ==
    LET free == FreeIds(timers)
        id   == Min(free)
    IN  /\ pc[th].at = "store"
        /\ free # {}
        /\ timers' = [timers EXCEPT ![id] =
                        NewTimer(pc[th].name, "plain", pc[th].delay, pc[th].one_time)]
        /\ tasks' = Put(tasks, pc[th].name, id)
        /\ pc' = [pc EXCEPT ![th].at = "start", ![th].id = id]
        /\ UNCHANGED <<computed, readable, sessionVars, queueVars, now, store, registered_tasks, registered_config,
                       stopped, boots, calls>>

\* timer.start(); schedule_task returns, and on the thread of a Timer
\* _run_task returns as well
RaceStart(th) ==
    LET started == Start(timers, pc[th].id)
    IN  /\ pc[th].at = "start"
        /\ timers' = IF th = UIThread THEN started ELSE Collect(tasks, Done(started, th))
        /\ pc' = [pc EXCEPT ![th] = Idle]
        /\ UNCHANGED <<computed, readable, sessionVars, queueVars, now, store, tasks, registered_tasks, registered_config,
                       stopped, boots, calls>>

NextRace ==
    \/ \E n \in PlainNames, p \in PlainInputs : RaceCall(n, p[1], p[2])
    \/ \E i \in TimerIds, raised \in BOOLEAN : RaceCallbackEnd(i, raised)
    \/ \E th \in ThreadIds : RaceCheck(th)
    \/ \E th \in ThreadIds : RaceCancel(th)
    \/ \E th \in ThreadIds : RaceStore(th)
    \/ \E th \in ThreadIds : RaceStart(th)
    \/ \E i \in TimerIds : Fire(i)
    \/ \E i \in TimerIds : Expire(i)
    \/ Jump

\* the timer registry with threads interleaving inside schedule_task
SpecRace == Init /\ [][NextRace]_vars

\* ------------------------------------------------------------------------
\* Sessions on the table, statement by statement: threads interleave
\* ------------------------------------------------------------------------

\* the columns of task_schedules an UPDATE may set (component_name is the
\* primary key; the audit columns are not part of the model)
Columns == {"schedule_type", "schedule_config", "next_run_at", "last_run_at", "last_error"}

\* select(TaskSchedule).where(component_name == name) ... .first(): the
\* position of the first such row in the table tb, 0 when there is none
SelectFirst(tb, name) ==
    LET found == {k \in 1..Len(tb) : tb[k].component_name = name}
    IN  IF found = {} THEN 0 ELSE Min(found)

\* the row a session loaded, <<>> when the select found none
Loaded(tb, name) == IF SelectFirst(tb, name) = 0 THEN <<>> ELSE tb[SelectFirst(tb, name)]

\* a table without a key on component_name
PrimaryKeyTaken_NoKey(tb, name) == FALSE

\* component_name = Column(String(255), primary_key=True): whether the
\* INSERT of a row for name is refused
PrimaryKeyTaken(tb, name) == \E k \in 1..Len(tb) : tb[k].component_name = name

\* the columns the flush of a loaded object writes: those whose value now
\* differs from the value that was loaded
Dirty(loaded, attrs) == {c \in Columns : attrs[c] # loaded[c]}

\* UPDATE task_schedules SET <dirty columns> WHERE component_name = name
Update(tb, name, loaded, attrs) ==
    [k \in 1..Len(tb) |->
        IF tb[k].component_name = name
        THEN [c \in DOMAIN tb[k] |->
                IF c \in Dirty(loaded, attrs) THEN attrs[c] ELSE tb[k][c]]
        ELSE tb[k]]

\* the functions that open sessions, by the caller that runs them:
\* update_after_run inside a runnable called by a fired timer or by
\* run_task_now, upsert_task_schedule under BaseTask.ensure_scheduled
SessionOps == {"_run_registered_and_reschedule", "run_task_now", "ensure_scheduled"}

\* whether the caller has an except clause around the call
Catches(op) == op \in {"_run_registered_and_reschedule", "run_task_now"}

\* what the thread sees when the session of op ended: the call returned,
\* or it raised and the caller logged it, or it raised to the caller's caller
Ended(op, raised) ==
    IF ~raised THEN "returned" ELSE IF Catches(op) THEN "logged" ELSE "raised"

\* (schedule_type, schedule_config, next_run_at) a task object passes to
\* ensure_scheduled: daily at 07:00 with or without a first run one second
\* after the start, and monthly on the 31st
UpsertInputs ==
    { <<DAILY, [time |-> <<"0", "7", ":", "0", "0">>], None>>,
      <<DAILY, [time |-> <<"0", "7", ":", "0", "0">>], StartTime + Seconds(1)>>,
      <<MONTHLY, [day |-> 31, time |-> <<"0", "0", ":", "0", "0">>], None>> }

\* thread th enters op for name: with session_scope() as session
SessionBegin(th, op, name, args) ==
    /\ calls < MaxCalls
    /\ calls' = calls + 1
    /\ sessions[th].at = "idle"
    /\ sessions' = [sessions EXCEPT ![th] =
                      [op |-> op, at |-> "select", name |-> name, args |-> args,
                       loaded |-> <<>>, attrs |-> <<>>, result |-> ""]]
    /\ UNCHANGED <<computed, readable, now, store, tasks, timers, registered_tasks, registered_config,
                   stopped, boots, pc, table, queueVars>>

\* row = session.execute(select(...)).scalars().first()
SessionSelect(th) ==
    LET ss  == sessions[th]
        row == Loaded(table, ss.name)
    IN  /\ ss.at = "select"
        /\ sessions' = [sessions EXCEPT ![th].loaded = row, ![th].attrs = row,
                                        ![th].at = "assign"]
        /\ UNCHANGED <<computed, readable, now, store, tasks, timers, registered_tasks, registered_config,
                       stopped, boots, calls, pc, table, queueVars>>

\* update_after_run after the select: no row, return; else now is read,
\* last_run_at and last_error are assigned, and next_run_at unless
\* compute_next_run raises
UpdateAssign(ss) ==
    IF ss.loaded = <<>>
    THEN [ss EXCEPT !.at = "commit"]
    ELSE LET next_run == compute_next_run(ss.loaded.schedule_type,
                                          ss.loaded.schedule_config, now, now)
             a1 == [ss.attrs EXCEPT !.last_run_at = now, !.last_error = Null]
         IN  IF next_run = ValueError
             THEN [ss EXCEPT !.attrs = a1, !.at = "rollback"]
             ELSE [ss EXCEPT !.attrs = [a1 EXCEPT !.next_run_at = next_run],
                             !.at = "commit"]

\* upsert_task_schedule after the select: the attributes of the loaded row
\* are assigned, or a new row is added to the session
UpsertAssign(ss) ==
    IF ss.loaded = <<>>
    THEN [ss EXCEPT !.attrs = [component_name |-> ss.name,
                               schedule_type |-> ss.args[1],
                               schedule_config |-> ss.args[2],
                               next_run_at |-> ss.args[3],
                               last_run_at |-> None,
                               last_error |-> Null],
                    !.at = "commit"]
    ELSE [ss EXCEPT !.attrs = [ss.attrs EXCEPT
                                 !.schedule_type = ss.args[1],
                                 !.schedule_config = ss.args[2],
                                 !.next_run_at = IF ss.args[3] # None THEN ss.args[3] ELSE @],
                    !.at = "commit"]

\* the body of the with block after the select, in the session of th
SessionAssign(th) ==
    LET ss == sessions[th]
    IN  /\ ss.at = "assign"
        /\ sessions' = [sessions EXCEPT ![th] =
                          IF ss.op = "ensure_scheduled"
                          THEN UpsertAssign(ss) ELSE UpdateAssign(ss)]
        /\ UNCHANGED <<computed, readable, now, store, tasks, timers, registered_tasks, registered_config,
                       stopped, boots, calls, pc, table, queueVars>>

\* what the commit of the session ss makes of the table tb: nothing when
\* the session holds no change, a new row, or the dirty columns of its row
Flush(tb, ss) ==
    IF ss.loaded = <<>>
    THEN IF ss.attrs = <<>> THEN tb ELSE Append(tb, ss.attrs)
    ELSE Update(tb, ss.name, ss.loaded, ss.attrs)

\* whether the flush of ss is refused by the primary key
IntegrityError(tb, ss) ==
    ss.loaded = <<>> /\ ss.attrs # <<>> /\ PrimaryKeyTaken(tb, ss.name)

\* a rollback that leaves the assignments made so far in the table
Rollback_KeepsWrites(tb, ss) == IF IntegrityError(tb, ss) THEN tb ELSE Flush(tb, ss)

\* session.rollback(): the changes the session holds are dropped
Rollback(tb, ss) == tb

\* session.commit() at the end of the with block; a refused flush is
\* rolled back and raised
SessionCommit(th) ==
    LET ss == sessions[th]
    IN  /\ ss.at = "commit"
        /\ table' = IF IntegrityError(table, ss) THEN Rollback(table, ss)
                     ELSE Flush(table, ss)
        /\ sessions' = [sessions EXCEPT ![th].at = "idle",
                          ![th].result = Ended(ss.op, IntegrityError(table, ss))]
        /\ UNCHANGED <<computed, readable, now, store, tasks, timers, registered_tasks, registered_config,
                       stopped, boots, calls, pc, queueVars>>

\* session.commit() fails for a reason of the database (locked, disk):
\* except: session.rollback(); raise
SessionCommitFails(th) ==
    LET ss == sessions[th]
    IN  /\ ss.at = "commit"
        /\ ss.loaded # <<>> \/ ss.attrs # <<>>
        /\ sessions' = [sessions EXCEPT ![th].at = "idle",
                          ![th].result = Ended(ss.op, TRUE)]
        /\ table' = Rollback(table, ss)
        /\ UNCHANGED <<computed, readable, now, store, tasks, timers, registered_tasks, registered_config,
                       stopped, boots, calls, pc, queueVars>>

\* the body raised: except: session.rollback(); raise
SessionRollback(th) ==
    LET ss == sessions[th]
    IN  /\ ss.at = "rollback"
        /\ sessions' = [sessions EXCEPT ![th].at = "idle",
                          ![th].result = Ended(ss.op, TRUE)]
        /\ table' = Rollback(table, ss)
        /\ UNCHANGED <<computed, readable, now, store, tasks, timers, registered_tasks, registered_config,
                       stopped, boots, calls, pc, queueVars>>

\* the ops a thread runs: a fired timer's runnable on the timer thread,
\* run_task_now on its caller's thread, ensure_scheduled on either
OpsOf(th) ==
    IF th = "timer thread"
    THEN {"_run_registered_and_reschedule", "ensure_scheduled"}
    ELSE {"run_task_now", "ensure_scheduled"}

\* a thread starts update_after_run or upsert_task_schedule for the task
Begin(th) ==
    \E op \in OpsOf(th) :
        IF op = "ensure_scheduled"
        THEN \E args \in UpsertInputs : SessionBegin(th, op, "Prayer Times", args)
        ELSE SessionBegin(th, op, "Prayer Times", <<>>)

\* the next run times of the rows, and the second after the start
StoreTargets ==
    {table[k].next_run_at : k \in 1..Len(table)} \cup {StartTime + Seconds(1)}

\* time passes while sessions are open
StoreJump ==
    /\ \E target \in StoreTargets :
         /\ target > now
         /\ target <= EndTime
         /\ now' = target
    /\ UNCHANGED <<computed, readable, store, tasks, timers, registered_tasks, registered_config,
                   stopped, boots, calls, pc, sessionVars, queueVars>>

NextStore ==
    \/ \E th \in StoreThreads : Begin(th)
    \/ \E th \in StoreThreads : SessionSelect(th)
    \/ \E th \in StoreThreads : SessionAssign(th)
    \/ \E th \in StoreThreads : SessionCommit(th)
    \/ \E th \in StoreThreads : SessionCommitFails(th)
    \/ \E th \in StoreThreads : SessionRollback(th)
    \/ StoreJump

SpecStore == Init /\ [][NextStore]_vars

\* ------------------------------------------------------------------------
\* The result queue: workers put, the UI thread drains
\* ------------------------------------------------------------------------

\* results the workers put in a run of the model
MaxPuts == 3

\* self.components: the components of the dashboard, in the order created
Components == <<"Prayer Times", "Weather">>

\* the delay of root.after(1000, self._drain_result_queue), in milliseconds
DrainDelay == 1000

\* a queue whose get takes the newest item
get_nowait_Newest(q) ==
    [item |-> q[Len(q)], rest |-> SubSeq(q, 1, Len(q) - 1)]

\* result_queue.get_nowait() on a queue that is not empty: queue.Queue is
\* first in, first out
get_nowait(q) == [item |-> Head(q), rest |-> Tail(q)]

\* the positions in self.components of the components named task_name
Matching(task_name) == {k \in 1..Len(Components) : Components[k] = task_name}

\* the components whose handle_background_result is called for task_name:
\* _drain_result_queue breaks after the first match, update_components
\* calls every match
Dispatch(task_name, first_only) ==
    IF Matching(task_name) = {} THEN <<>>
    ELSE IF first_only THEN <<Components[Min(Matching(task_name))]>>
    ELSE SelectSeq(Components, LAMBDA c : c = task_name)

\* results put so far
Puts == Len(handled) + Len(result_queue)

\* a runnable, in a timer thread or in the caller of run_task_now, puts
\* (component_name, payload) on the queue; payloads are numbered as put
WorkerPut(component_name) ==
    /\ Puts < MaxPuts
    /\ result_queue' = Append(result_queue, <<component_name, Puts + 1>>)
    /\ UNCHANGED <<computed, readable, now, store, tasks, timers, registered_tasks, registered_config,
                   stopped, boots, calls, pc, sessionVars, handled, ui>>

\* the UI thread takes one item and calls the components for it; raised
\* tells whether a handle_background_result raised
Take(first_only, raised) ==
    LET g == get_nowait(result_queue)
    IN  /\ result_queue # <<>>
        /\ result_queue' = g.rest
        /\ handled' = Append(handled,
                             [task_name |-> g.item[1], payload |-> g.item[2],
                              components |-> Dispatch(g.item[1], first_only),
                              raised |-> raised /\ Dispatch(g.item[1], first_only) # <<>>])

\* root.after(1000, self._drain_result_queue)
Armed == [at |-> "waiting", after |-> DrainDelay]

\* update_components at the start of run(): one turn of its while loop. An
\* exception of a handler ends the function in its except clause; run()
\* then arms the drain.
UpdateTake(raised) ==
    /\ ui.at = "starting"
    /\ Take(FALSE, raised)
    /\ ui' = IF handled'[Len(handled')].raised THEN Armed ELSE ui
    /\ UNCHANGED <<computed, readable, now, store, tasks, timers, registered_tasks, registered_config,
                   stopped, boots, calls, pc, sessionVars>>

\* update_components finds the queue empty; run() arms the drain
UpdateEnd ==
    /\ ui.at = "starting"
    /\ result_queue = <<>>
    /\ ui' = Armed
    /\ UNCHANGED <<computed, readable, now, store, tasks, timers, registered_tasks, registered_config,
                   stopped, boots, calls, pc, sessionVars, result_queue, handled>>

\* the after callback is due: mainloop calls _drain_result_queue
DrainBegin ==
    /\ ui.at = "waiting"
    /\ ui' = [at |-> "draining", after |-> None]
    /\ UNCHANGED <<computed, readable, now, store, tasks, timers, registered_tasks, registered_config,
                   stopped, boots, calls, pc, sessionVars, result_queue, handled>>

\* one turn of the while loop of _drain_result_queue. An exception of a
\* handler ends the loop in the except clause, and the drain is armed again.
DrainTake(raised) ==
    /\ ui.at = "draining"
    /\ Take(TRUE, raised)
    /\ ui' = IF handled'[Len(handled')].raised THEN Armed ELSE ui
    /\ UNCHANGED <<computed, readable, now, store, tasks, timers, registered_tasks, registered_config,
                   stopped, boots, calls, pc, sessionVars>>

\* _drain_result_queue finds the queue empty, arms itself again and returns
DrainEnd ==
    /\ ui.at = "draining"
    /\ result_queue = <<>>
    /\ ui' = Armed
    /\ UNCHANGED <<computed, readable, now, store, tasks, timers, registered_tasks, registered_config,
                   stopped, boots, calls, pc, sessionVars, result_queue, handled>>

NextQueue ==
    \/ \E n \in Names : WorkerPut(n)
    \/ \E raised \in BOOLEAN : UpdateTake(raised)
    \/ UpdateEnd
    \/ DrainBegin
    \/ \E raised \in BOOLEAN : DrainTake(raised)
    \/ DrainEnd

\* the UI thread runs: Tk's mainloop calls a due after callback, and a
\* function that is running takes its next step
UIFairness ==
    /\ WF_vars(\E raised \in BOOLEAN : UpdateTake(raised))
    /\ WF_vars(UpdateEnd)
    /\ WF_vars(DrainBegin)
    /\ WF_vars(\E raised \in BOOLEAN : DrainTake(raised))
    /\ WF_vars(DrainEnd)

SpecQueue == Init /\ [][NextQueue]_vars /\ UIFairness

\* ------------------------------------------------------------------------
\* compute_next_run on its own: one call per run of the model
\* ------------------------------------------------------------------------

\* "HH:MM" strings
T0000 == <<"0", "0", ":", "0", "0">>

T0700 == <<"0", "7", ":", "0", "0">>

T2359 == <<"2", "3", ":", "5", "9">>

\* the schedule kinds of TaskType and one that is none of them
Kinds == {DAILY, HOURLY, INTERVAL_SECONDS, MONTHLY, "weekly"}

\* schedule_config values: none or empty, daily times (one without
\* minutes), intervals (one of them zero), monthly days (one without time)
ParamsInputs ==
    { <<>>,
      [time |-> T0000], [time |-> T0700], [time |-> T2359], [time |-> <<"7">>],
      [interval_seconds |-> 3600], [interval_seconds |-> 60], [interval_seconds |-> 0],
      [day |-> 1, time |-> T0000], [day |-> 15, time |-> T0700],
      [day |-> 29, time |-> T0000], [day |-> 31, time |-> T0000], [day |-> 28] }

\* datetime(year, month, day, hour, minute, second)
At(year, month, day, hour, minute, second) ==
    DateTime([year |-> year, month |-> month, day |-> day, hour |-> hour,
              minute |-> minute, second |-> second, sub |-> 0])

\* last_run values: none, around 07:00, at midnight, in a leap February, in
\* December, in a 30-day month, and one that is not on a whole second
LastRunInputs ==
    { None,
      At(2024, 1, 31, 6, 59, 59), At(2024, 1, 31, 7, 0, 0), At(2024, 1, 31, 7, 0, 0) + 1,
      At(2024, 1, 15, 0, 0, 0), At(2024, 1, 1, 0, 0, 0), At(2024, 2, 29, 12, 0, 0),
      At(2024, 4, 30, 23, 59, 59), At(2024, 12, 15, 0, 0, 0),
      At(2024, 12, 31, 23, 59, 59), At(2025, 2, 10, 8, 0, 0) }

\* the calls of compute_next_run the model makes
CallInputs ==
    { [at |-> "called", schedule_type |-> k, schedule_config |-> p,
       last_run |-> l, result |-> None] :
         k \in Kinds, p \in ParamsInputs, l \in LastRunInputs }

InitCalc == Started /\ computed \in CallInputs

\* the call returns its datetime or raises
Compute ==
    LET r == compute_next_run(computed.schedule_type, computed.schedule_config,
                              computed.last_run, now)
    IN  /\ computed.at = "called"
        /\ computed' = [computed EXCEPT !.result = r,
                          !.at = IF r = ValueError THEN "raised" ELSE "returned"]
        /\ UNCHANGED <<now, store, tasks, timers, registered_tasks, registered_config,
                       stopped, boots, calls, pc, sessionVars, queueVars, readable>>

NextCalc == Compute

SpecCalc == InitCalc /\ [][NextCalc]_vars

\* ------------------------------------------------------------------------
\* The schedule store out of reach
\* ------------------------------------------------------------------------

\* the database can no longer be read: every session raises
Outage ==
    /\ readable
    /\ readable' = FALSE
    /\ UNCHANGED <<computed, sessionVars, queueVars, now, store, tasks, timers, registered_tasks,
                   registered_config, stopped, boots, calls, pc>>

\* the database can be read again
Recover ==
    /\ ~readable
    /\ readable' = TRUE
    /\ UNCHANGED <<computed, sessionVars, queueVars, now, store, tasks, timers, registered_tasks,
                   registered_config, stopped, boots, calls, pc>>

NextOutage ==
    \/ \E n \in TaskNames : register_task(n)
    \/ \E n \in TaskNames, c \in ConfigInputs : ScheduleRegisteredTask(n, c)
    \/ \E n \in TaskNames, s \in SchedInputs, nr \in NextRunInputs :
         readable /\ ensure_scheduled(n, s[1], s[2], nr)
    \/ \E i \in TimerIds : Fire(i)
    \/ \E i \in TimerIds : Expire(i)
    \/ \E i \in TimerIds, o \in Outcomes : RunnableFinish(i, o)
    \/ \E i \in TimerIds : Rearm(i)
    \/ Jump
    \/ Outage
    \/ Recover

SpecOutage == Init /\ [][NextOutage]_vars

\* ------------------------------------------------------------------------
\* Steps, as seen in a pair of states
\* ------------------------------------------------------------------------

\* slot j receives a Timer object in this step, started and not cancelled
NewlyArmed(j) ==
    /\ timers[j].state \in {"free", "done"}
    /\ IsPending(timers'[j])

\* the runnable called by timer i ends in this step
RunEnds(i) ==
    /\ boots' = boots
    /\ timers[i].state = "running"
    /\ timers[i].callback = "registered"
    /\ timers'[i].state = "ran"

\* timer i, whose runnable has ended, goes through its re-arm in this step
RearmBy(i) ==
    /\ boots' = boots
    /\ timers[i].state = "ran"
    /\ timers'[i].state # "ran"

\* the timers of name that are started, not fired and not cancelled
PendingFor(name) == {i \in TimerIds : timers[i].name = name /\ IsPending(timers[i])}

\* ------------------------------------------------------------------------
\* C1 .. C10
\* ------------------------------------------------------------------------

\* C1: with calls of schedule_task / schedule_registered_task that do not
\* overlap, every name has at most one pending timer, that timer is the one
\* in tasks[name] (the timer the name had before was cancelled), and
\* get_active_timers has exactly one entry for a name that was scheduled.
C1_SingleActiveTimer ==
    \A n \in Names :
        /\ Cardinality(PendingFor(n)) <= 1
        /\ \A i \in PendingFor(n) : n \in DOMAIN tasks /\ tasks[n] = i
        /\ n \in DOMAIN tasks => Cardinality({e \in get_active_timers : e[1] = n}) = 1

\* a name was scheduled while it had a pending timer: the old timer is
\* cancelled (its thread has not ended yet), the new one is pending
C1_Witness ==
    \E i, j \in TimerIds :
        /\ i # j
        /\ ~stopped
        /\ timers[i].name = timers[j].name
        /\ timers[i].state = "pending" /\ timers[i].finished
        /\ IsPending(timers[j])
        /\ tasks[timers[j].name] = j

\* C2: for a registered task whose stored config is not None, the re-arm
\* that follows the end of the runnable (returned or raised) leaves a
\* pending timer under the same name in tasks; and as long as stop() was not
\* called and the timer in tasks[name] is one armed by
\* schedule_registered_task, the task is armed or running.
C2_RearmStep ==
    \A i \in TimerIds :
        (RearmBy(i) /\ StoredConfig(registered_config, timers[i].name)[1] # Null)
        => LET n == timers[i].name
           IN  /\ n \in DOMAIN tasks'
               /\ IsPending(timers'[tasks'[n]])
               /\ NewlyArmed(tasks'[n])
               /\ timers'[tasks'[n]].callback = "registered"

C2_ArmedOrRunning ==
    \A n \in DOMAIN tasks :
        (/\ ~stopped
         /\ timers[tasks[n]].callback = "registered"
         /\ StoredConfig(registered_config, n)[1] # Null)
        => \E i \in TimerIds :
              /\ timers[i].name = n
              /\ timers[i].callback = "registered"
              /\ IsPending(timers[i]) \/ IsInFlight(timers[i])

C2_AlwaysRearmed == [][C2_RearmStep]_vars /\ []C2_ArmedOrRunning

\* a fire of a registered task has ended and armed the next timer: the
\* pending timer in tasks carries the last_run that _run_task sets after
\* the callback
C2_Witness ==
    \E n \in DOMAIN tasks :
        /\ ~stopped
        /\ StoredConfig(registered_config, n)[1] # Null
        /\ timers[tasks[n]].callback = "registered"
        /\ IsPending(timers[tasks[n]])
        /\ timers[tasks[n]].last_run # None

\* C3: when a run of a due task (its row has a next_run_at that is not
\* after now) fails, that is the runnable raises or returns without its
\* update_after_run call, the timer the runner arms next is not armed with
\* delay 0.
C3_FailedRunStep ==
    \A i \in TimerIds :
        LET n == timers[i].name
        IN  (/\ RearmBy(i)
             /\ timers[i].outcome \in {"raise", "fetch_failed"}
             /\ timers[i].update = "none"
             /\ StoredConfig(registered_config, n)[1] # Null
             /\ n \in DOMAIN store
             /\ store[n].next_run_at # None
             /\ store[n].next_run_at <= now)
            => /\ n \in DOMAIN tasks'
               /\ timers'[tasks'[n]].delay > 0

C3_FailedRunWaitsInterval == [][C3_FailedRunStep]_vars

\* C4: the next_run_at of a row that exists changes only in a step in which
\* a runnable's update_after_run commits; no call of ensure_scheduled or
\* upsert_task_schedule, whatever next_run_at it is given, changes it.
C4_NextRunStep ==
    \A n \in DOMAIN store :
        (n \in DOMAIN store' /\ store'[n].next_run_at # store[n].next_run_at)
        => \E i \in TimerIds :
              /\ RunEnds(i)
              /\ timers[i].name = n
              /\ timers'[i].update = "committed"

C4_OnlyUpdateAfterRunAdvances == [][C4_NextRunStep]_vars

\* C5: whenever a runnable calls update_after_run(name) at time now for a
\* name that has a row, the row afterwards has last_run_at = now,
\* last_error = null and next_run_at = compute_next_run(schedule_type,
\* schedule_config, now), whatever last_error and next_run_at were.
C5_UpdateStep ==
    \A i \in TimerIds :
        LET n == timers[i].name
        IN  (RunEnds(i) /\ timers'[i].update # "none" /\ n \in DOMAIN store)
            => /\ n \in DOMAIN store'
               /\ store'[n].last_run_at = now
               /\ store'[n].last_error = Null
               /\ store'[n].next_run_at =
                    compute_next_run(store[n].schedule_type, store[n].schedule_config,
                                     now, now)

C5_UpdateAfterRun == [][C5_UpdateStep]_vars

\* whether the row of name holds the schedule IntervalSeconds / 3600
IsHourlyInterval(st, name) ==
    /\ name \in DOMAIN st
    /\ st[name].schedule_type = INTERVAL_SECONDS
    /\ st[name].schedule_config = [interval_seconds |-> 3600]

\* C6: end to end for a task whose row ensure_scheduled created with the
\* schedule IntervalSeconds / 3600 and no next_run_at: a registered task
\* whose stored next run is null is armed with delay 0; when its runnable's
\* update_after_run commits at time now the row holds next_run_at = now +
\* 3600 s and last_run_at = now; and the re-arm that follows at that time
\* arms a pending timer with delay 3600 whose fire time is that
\* next_run_at, the one entry get_active_timers has for the name.
C6_EndToEndStep ==
    \A i \in TimerIds :
        LET n == timers[i].name
        IN  /\ (/\ NewlyArmed(i)
                /\ timers'[i].callback = "registered"
                /\ get_next_run_from_db(store', timers'[i].name) = None)
               => timers'[i].delay = 0 /\ timers'[i].scheduled_time = now
            /\ (/\ RunEnds(i)
                /\ timers'[i].update = "committed"
                /\ IsHourlyInterval(store, n))
               => /\ store'[n].next_run_at = now + Seconds(3600)
                  /\ store'[n].last_run_at = now
            /\ (/\ RearmBy(i)
                /\ timers[i].update = "committed"
                /\ IsHourlyInterval(store, n)
                /\ StoredConfig(registered_config, n)[1] # Null
                /\ store[n].last_run_at = now
                /\ store[n].next_run_at = now + Seconds(3600))
               => /\ n \in DOMAIN tasks'
                  /\ IsPending(timers'[tasks'[n]])
                  /\ timers'[tasks'[n]].delay = 3600
                  /\ timers'[tasks'[n]].scheduled_time = store[n].next_run_at
                  /\ {e \in ActiveTimers(tasks', timers') : e[1] = n}
                       = {<<n, store[n].next_run_at>>}

C7_DelayStep ==
    /\ \A n \in TaskNames, s \in SchedInputs :
          (n \notin DOMAIN store /\ ensure_scheduled(n, s[1], s[2], None))
          => /\ n \in DOMAIN store'
             /\ store'[n].next_run_at = None
             /\ get_next_run_from_db(store', n) = None
    /\ \A i \in TimerIds :
          (NewlyArmed(i) /\ timers'[i].callback = "registered")
          => LET next_run == get_next_run_from_db(store', timers'[i].name)
                 delay    == timers'[i].delay
             IN  /\ delay >= 0
                 /\ (next_run = None \/ next_run <= now) => delay = 0
                 /\ (next_run # None /\ next_run > now)
                    => /\ delay * Res <= next_run - now
                       /\ next_run - now < (delay + 1) * Res

C7_NullNextRunMeansImmediate == [][C7_DelayStep]_vars

\* a name got its row from ensure_scheduled without next_run_at, no run has
\* written to it, and schedule_registered_task armed the name with delay 0
C7_Witness ==
    \E n \in DOMAIN tasks \cap DOMAIN store :
        /\ store[n].next_run_at = None
        /\ store[n].last_run_at = None
        /\ get_next_run_from_db(store, n) = None
        /\ timers[tasks[n]].callback = "registered"
        /\ IsPending(timers[tasks[n]])
        /\ timers[tasks[n]].delay = 0
        /\ timers[tasks[n]].scheduled_time = now

\* C8: when the process dies at any point and is started again
\* (register_task, ensure_scheduled without next_run_at,
\* schedule_registered_task), the next_run_at of every row is the same as
\* before, and a task whose next_run_at is not after the time of the
\* restart is armed with delay 0.
C8_RestartStep ==
    (boots' = boots + 1)
    => /\ \A n \in DOMAIN store :
             /\ n \in DOMAIN store'
             /\ store'[n].next_run_at = store[n].next_run_at
       /\ \A n \in DOMAIN tasks' :
             /\ n \in DOMAIN store'
             /\ IsPending(timers'[tasks'[n]])
             /\ (store'[n].next_run_at = None \/ store'[n].next_run_at <= now)
                => timers'[tasks'[n]].delay = 0

C8_CrashRecovery == [][C8_RestartStep]_vars

\* the process was restarted when a run had recorded its next run and that
\* next run had come: the row still holds it and the task is armed with
\* delay 0
C8_Witness ==
    \E n \in DOMAIN tasks \cap DOMAIN store :
        /\ boots = 1
        /\ store[n].last_run_at # None
        /\ store[n].next_run_at # None
        /\ store[n].next_run_at <= now
        /\ IsPending(timers[tasks[n]])
        /\ timers[tasks[n]].delay = 0
        /\ timers[tasks[n]].scheduled_time = now
        /\ timers[tasks[n]].last_run = None

\* the timers of name whose registered runnable is executing
RunningFor(name) ==
    {i \in TimerIds : /\ timers[i].name = name
                      /\ timers[i].callback = "registered"
                      /\ timers[i].state = "running"}

\* C9: for each task name at most one invocation of its runnable started by
\* a timer is executing at any time, also when schedule_registered_task is
\* called for the name while a run is in flight.
C9_OneScheduledInvocation == \A n \in Names : Cardinality(RunningFor(n)) <= 1

\* C10: also when two threads are inside schedule_task for the same name at
\* the same time, every timer that is started, not fired and not cancelled is
\* the one recorded in tasks[name].
C10_NoOrphanTimer ==
    \A i \in TimerIds :
        IsPending(timers[i])
        => timers[i].name \in DOMAIN tasks /\ tasks[timers[i].name] = i

\* ------------------------------------------------------------------------
\* C11
\* ------------------------------------------------------------------------

\* thread th commits, in this step, an update_after_run that found a row
\* whose kind and params no ensure_scheduled has changed since
UpdateCommits(th) ==
    /\ sessions[th].op \in {"_run_registered_and_reschedule", "run_task_now"}
    /\ sessions[th].at = "commit"
    /\ sessions[th].loaded # <<>>
    /\ Loaded(table, sessions[th].name).schedule_type = sessions[th].loaded.schedule_type
    /\ Loaded(table, sessions[th].name).schedule_config = sessions[th].loaded.schedule_config
    /\ sessions'[th].at = "idle"
    /\ sessions'[th].result = "returned"

\* the row of the task after the step
RowAfter(name) == Loaded(table', name)

C11_CommitStep ==
    \A th \in StoreThreads :
        /\ UpdateCommits(th) =>
              /\ RowAfter(sessions[th].name).last_run_at = sessions[th].attrs.last_run_at
              /\ RowAfter(sessions[th].name).next_run_at =
                    compute_next_run(RowAfter(sessions[th].name).schedule_type,
                                     RowAfter(sessions[th].name).schedule_config,
                                     RowAfter(sessions[th].name).last_run_at,
                                     RowAfter(sessions[th].name).last_run_at)
        /\ sessions'[th].op \in {"_run_registered_and_reschedule", "run_task_now"}
              => sessions'[th].result # "raised"

\* C11: when run_task_now and a fired timer of the same task both call
\* update_after_run, every commit leaves the row of the completion that
\* committed: its last_run_at, and next_run_at = compute_next_run(kind,
\* params, that last_run_at), never a mix of the two completions; and no
\* exception leaves run_task_now or the timer callback.
C11_LastCommitWins == [][C11_CommitStep]_vars

\* ------------------------------------------------------------------------
\* C12
\* ------------------------------------------------------------------------

\* the step is a call of run_task_now for name whose runnable ends with outcome
IsRunTaskNow(name, outcome) == RunTaskNow(name, outcome)

\* every timer pending before the step is the same timer after it
PendingKept ==
    \A i \in TimerIds :
        IsPending(timers[i]) =>
            /\ IsPending(timers'[i])
            /\ timers'[i].scheduled_time = timers[i].scheduled_time
            /\ timers'[i].name = timers[i].name

C12_RunNowStep ==
    \A n \in TaskNames, o \in Outcomes :
        IsRunTaskNow(n, o) =>
            /\ tasks' = tasks
            /\ registered_config' = registered_config
            /\ PendingKept

\* C12: a call of run_task_now, whether the runnable returned or raised,
\* leaves the timer table and the stored scheduling config as they were: a
\* timer pending for the name before the call is pending with the same fire
\* time after it.
C12_RunNowKeepsTimers == [][C12_RunNowStep]_vars

\* run_task_now has run for a registered task with a row while the timer of
\* the task was pending for a later time: the row holds the run, the timer
\* is as armed
C12_Witness ==
    /\ calls = MaxCalls + 1
    /\ \E n \in DOMAIN tasks \cap DOMAIN registered_tasks :
         /\ n \in DOMAIN store
         /\ store[n].last_run_at = now
         /\ IsPending(timers[tasks[n]])
         /\ timers[tasks[n]].scheduled_time > now
         /\ timers[tasks[n]].last_run = None

\* ------------------------------------------------------------------------
\* C13
\* ------------------------------------------------------------------------

\* C13: after stop() no timer is pending for any name: the timers that were
\* pending are cancelled and do not fire, and none is armed afterwards, also
\* not by a run that was executing when stop() was called.
C13_NoTimerAfterStop == stopped => \A i \in TimerIds : ~IsPending(timers[i])

\* ------------------------------------------------------------------------
\* C14
\* ------------------------------------------------------------------------

\* the Timer thread of i has ended the regular way (finished is set)
EndedRegularly(t) == t.state = "free" \/ (t.state = "done" /\ t.finished)

\* the timers and table entries of the names other than name are the same
\* after the step
OthersUntouched(name) ==
    /\ \A j \in TimerIds :
         timers[j].name # name /\ timers[j].state # "free" => timers'[j] = timers[j]
    /\ \A n \in DOMAIN tasks :
         n # name => n \in DOMAIN tasks' /\ tasks'[n] = tasks[n]

C14_RaiseStep ==
    \A i \in TimerIds :
        /\ PlainFinish(i, TRUE) =>
              /\ EndedRegularly(timers'[i])
              /\ OthersUntouched(timers[i].name)
        /\ RunnableFinish(i, "raise") => OthersUntouched(timers[i].name)

\* C14: when the callback of a fired timer raises, _run_task catches the
\* exception and the Timer thread ends the regular way; the timers of every
\* other name are as they were, pending for the same fire time.
C14_CallbackErrorContained == [][C14_RaiseStep]_vars

\* the callback of the recurring timer of one name has raised (the timer is
\* done and was not armed again) while another name has a pending timer
C14_Witness ==
    \E i, j \in TimerIds :
        /\ timers[i].callback = "plain"
        /\ ~timers[i].one_time
        /\ timers[i].state = "done"
        /\ timers[i].finished
        /\ timers[i].name \in DOMAIN tasks
        /\ tasks[timers[i].name] = i
        /\ timers[j].name # timers[i].name
        /\ IsPending(timers[j])

\* ------------------------------------------------------------------------
\* C15
\* ------------------------------------------------------------------------

\* the callback of the recurring timer i, armed by schedule_task with
\* one_time=False, ends in this step (it returned or it raised)
RecurringCallbackEnds(i) ==
    /\ boots' = boots
    /\ timers[i].callback = "plain"
    /\ ~timers[i].one_time
    /\ timers[i].state = "running"
    /\ timers'[i].state # "running"

\* name has, after the step, a pending timer in tasks with the callback and
\* delay of t
ArmedAgain(t) ==
    /\ t.name \in DOMAIN tasks'
    /\ IsPending(timers'[tasks'[t.name]])
    /\ timers'[tasks'[t.name]].callback = t.callback
    /\ timers'[tasks'[t.name]].delay = t.delay
    /\ ~timers'[tasks'[t.name]].one_time

C15_RecurringStep ==
    \A i \in TimerIds : RecurringCallbackEnds(i) => ArmedAgain(timers[i])

\* C15: after every fire of a timer scheduled with one_time=False the name
\* is armed again with the same callback and delay, also when the callback
\* raised.
C15_RecurringAlwaysRearmed == [][C15_RecurringStep]_vars

\* ------------------------------------------------------------------------
\* C16
\* ------------------------------------------------------------------------

\* the step is a call of schedule_registered_task or of run_task_now for name
CallFor(name) ==
    \/ \E c \in ConfigInputs : ScheduleRegisteredTask(name, c)
    \/ \E o \in Outcomes : RunTaskNow(name, o)

C16_UnregisteredStep ==
    \A n \in TaskNames :
        n \notin DOMAIN registered_tasks /\ CallFor(n) =>
            /\ timers' = timers
            /\ tasks' = tasks
            /\ registered_config' = registered_config
            /\ registered_tasks' = registered_tasks
            /\ store' = store

\* C16: schedule_registered_task and run_task_now for a name that has no
\* registered runnable change nothing: no timer is created, the stored
\* config and the schedule store stay as they are.
C16_UnregisteredIsNoOp == [][C16_UnregisteredStep]_vars

\* calls were made, none of them register_task or ensure_scheduled, and
\* nothing is armed, stored or registered
C16_Witness ==
    /\ calls > 0
    /\ registered_tasks = <<>>
    /\ registered_config = <<>>
    /\ tasks = <<>>
    /\ store = <<>>
    /\ \A i \in TimerIds : timers[i] = NoTimer

\* ------------------------------------------------------------------------
\* C17
\* ------------------------------------------------------------------------

\* the run of the runnable called by timer i ends in this step as a failure:
\* the fetch failed inside the runnable, or the runnable raised
FailedRunEnds(i) ==
    /\ RunEnds(i)
    /\ timers'[i].outcome \in {"fetch_failed", "raise"}

C17_FailedRunStep ==
    \A i \in TimerIds :
        FailedRunEnds(i) /\ timers[i].name \in DOMAIN store =>
            store'[timers[i].name].last_error # Null

\* C17: after a run of a task failed, the row of the task holds a non-null
\* last_error.
C17_FailedRunRecordsError == [][C17_FailedRunStep]_vars

\* ------------------------------------------------------------------------
\* C18
\* ------------------------------------------------------------------------

\* the session of th ends in this step with an exception
SessionFails(th) ==
    /\ sessions[th].at \in {"commit", "rollback"}
    /\ sessions'[th].at = "idle"
    /\ sessions'[th].result # "returned"

\* the session of th ends in this step with its commit
SessionCommits(th) ==
    /\ sessions[th].at = "commit"
    /\ sessions'[th].at = "idle"
    /\ sessions'[th].result = "returned"

C18_SessionStep ==
    /\ \A th \in StoreThreads :
         SessionFails(th) =>
            /\ table' = table
            /\ sessions'[th].result = Ended(sessions[th].op, TRUE)
    /\ table' # table => \E th \in StoreThreads : SessionCommits(th)

\* no row holds a last run without a next run
C18_NoPartialRow ==
    \A k \in 1..Len(table) :
        table[k].last_run_at # None => table[k].next_run_at # None

\* C18: a session of update_after_run or upsert_task_schedule that fails
\* (compute_next_run raises, the commit fails) leaves the table as it was
\* and ends with the exception going to the caller; the table changes only
\* by the commit of a session, and no row has last_run_at written without
\* next_run_at.
C18_AllOrNothing == [][C18_SessionStep]_vars /\ []C18_NoPartialRow

\* update_after_run has assigned last_run_at and then failed: the session has
\* ended with the exception and the row is the one it loaded
C18_Witness ==
    \E th \in StoreThreads :
        /\ sessions[th].at = "idle"
        /\ sessions[th].result \in {"logged", "raised"}
        /\ sessions[th].loaded # <<>>
        /\ sessions[th].attrs.last_run_at # sessions[th].loaded.last_run_at
        /\ Loaded(table, sessions[th].name) = sessions[th].loaded

\* ------------------------------------------------------------------------
\* C19
\* ------------------------------------------------------------------------

\* C19: the table holds at most one row per task name in every reachable
\* state, also when two threads run upsert_task_schedule for a name that has
\* no row and both read "no row" before either inserts.
C19_OneRowPerName ==
    \A k1, k2 \in 1..Len(table) :
        table[k1].component_name = table[k2].component_name => k1 = k2

\* both threads ran upsert_task_schedule for the name, both found no row;
\* one inserted, the other's insert was refused: one row
C19_Witness ==
    /\ \A th \in StoreThreads :
         /\ sessions[th].op = "ensure_scheduled"
         /\ sessions[th].at = "idle"
         /\ sessions[th].loaded = <<>>
         /\ sessions[th].attrs # <<>>
    /\ \E th \in StoreThreads : sessions[th].result = "raised"
    /\ \E th \in StoreThreads : sessions[th].result = "returned"
    /\ Len(table) = 1

\* ------------------------------------------------------------------------
\* C20
\* ------------------------------------------------------------------------

\* the payloads of the items taken so far, then of those still queued
PayloadsInOrder ==
    [k \in 1..Puts |->
        IF k <= Len(handled) THEN handled[k].payload
        ELSE result_queue[k - Len(handled)][2]]

\* every item put is either taken once or still queued, in the order put,
\* and an item taken was passed to the component of its name and to no other
C20_QueueOrder ==
    /\ PayloadsInOrder = [k \in 1..Puts |-> k]
    /\ \A k \in 1..Len(handled) : handled[k].components = <<handled[k].task_name>>

\* a function of the UI thread that returns leaves the drain armed to run
\* after a second, also when it returns through its except clause
C20_PassStep ==
    /\ ui.at \in {"starting", "draining"} /\ ui'.at # ui.at => ui' = Armed
    /\ ui.at = "draining" /\ result_queue = <<>> /\ ui' # ui => ui' = Armed

\* the item with payload k is on the queue
Queued(k) == \E j \in 1..Len(result_queue) : result_queue[j][2] = k

\* the item with payload k was taken and passed on
Handled(k) == \E j \in 1..Len(handled) : handled[j].payload = k

C20_Drained == \A k \in 1..MaxPuts : Queued(k) ~> Handled(k)

\* C20: every (task_name, payload) put on the result queue is eventually
\* taken by the UI thread, once and in the order put, and passed to
\* handle_background_result of the component named task_name; a drain that
\* finds the queue empty returns, and the drain is armed again after every
\* pass, also one that hit an error.
C20_EveryResultHandledOnce ==
    /\ []C20_QueueOrder
    /\ [][C20_PassStep]_vars
    /\ C20_Drained
    /\ []<>(ui = Armed)

\* three results were put and all were passed on in order, the second by a
\* handler that raised, after which the drain ran again
C20_Witness ==
    /\ Len(handled) = MaxPuts
    /\ result_queue = <<>>
    /\ handled[2].raised
    /\ ~handled[3].raised
    /\ handled[1].task_name # handled[2].task_name
    /\ ui = Armed

\* ------------------------------------------------------------------------
\* C21
\* ------------------------------------------------------------------------

\* C21: get_active_timers lists a name only while a timer is pending for
\* it: never a timer that has fired or was cancelled, and nothing after
\* stop().
C21_ActiveMeansPending ==
    /\ \A e \in get_active_timers : IsPending(timers[tasks[e[1]]])
    /\ stopped => get_active_timers = {}

\* ------------------------------------------------------------------------
\* C22 .. C26: compute_next_run
\* ------------------------------------------------------------------------

\* the call has ended
CallEnded == computed.at \in {"returned", "raised"}

\* the last run the call works from: its argument, or the clock when none
LastRunOf(c) == IF c.last_run = None THEN now ELSE c.last_run

\* C22: for every kind, params and last_run, compute_next_run returns a
\* timestamp strictly greater than last_run; for hourly it is last_run + 1
\* hour, for interval_seconds it is last_run + interval_seconds.
C22_StrictlyAfterLastRun ==
    CallEnded =>
        /\ computed.at = "returned"
        /\ computed.result > LastRunOf(computed)
        /\ computed.schedule_type = HOURLY =>
              computed.result = LastRunOf(computed) + Seconds(3600)
        /\ computed.schedule_type = INTERVAL_SECONDS
              /\ "interval_seconds" \in DOMAIN computed.schedule_config =>
              computed.result = LastRunOf(computed)
                                + Seconds(computed.schedule_config.interval_seconds)

\* the hour and minute an "HH:MM" string of the model stands for
HourMinute(time_str) ==
    IF time_str = T0700 THEN <<7, 0>>
    ELSE IF time_str = T2359 THEN <<23, 59>>
    ELSE IF time_str = <<"7">> THEN <<7, 0>>
    ELSE <<0, 0>>

\* t is at hm[1]:hm[2]:00 of its day
IsAtTimeOfDay(t, hm) ==
    /\ Fields(t).hour = hm[1]
    /\ Fields(t).minute = hm[2]
    /\ Fields(t).second = 0
    /\ Fields(t).sub = 0

\* t and u are on the same calendar day
SameDay(t, u) == t \div DayTicks = u \div DayTicks

\* the call is one for a daily schedule with a time
IsDailyCall ==
    /\ CallEnded
    /\ computed.schedule_type = DAILY
    /\ "time" \in DOMAIN computed.schedule_config

\* last_run is before HH:MM:00 of its own day
BeforeTimeOfDay(t, hm) ==
    t % DayTicks < Seconds(hm[1] * 3600 + hm[2] * 60)

\* C23: for daily at HH:MM, compute_next_run returns the earliest instant
\* strictly after last_run that is at HH:MM:00: on last_run's day when
\* last_run is before HH:MM, on the next day when it is at or after HH:MM.
C23_DailyEarliestAfter ==
    IsDailyCall =>
        LET hm == HourMinute(computed.schedule_config.time)
            l  == LastRunOf(computed)
        IN  /\ computed.at = "returned"
            /\ IsAtTimeOfDay(computed.result, hm)
            /\ computed.result > l
            /\ computed.result - Days(1) <= l
            /\ IF BeforeTimeOfDay(l, hm)
               THEN SameDay(computed.result, l)
               ELSE SameDay(computed.result, l + Days(1))

\* daily at 07:00 with a last run at 07:00:00 exactly: the next day, 07:00
C23_Witness ==
    /\ computed.at = "returned"
    /\ computed.schedule_type = DAILY
    /\ computed.schedule_config = [time |-> T0700]
    /\ computed.last_run = At(2024, 1, 31, 7, 0, 0)
    /\ computed.result = At(2024, 2, 1, 7, 0, 0)

\* the call is one for a monthly schedule with a day
IsMonthlyCall ==
    /\ CallEnded
    /\ computed.schedule_type = MONTHLY
    /\ "day" \in DOMAIN computed.schedule_config

\* the year and month that follow the month of t
FollowingMonth(t) ==
    IF Fields(t).month = 12
    THEN [year |-> Fields(t).year + 1, month |-> 1]
    ELSE [year |-> Fields(t).year, month |-> Fields(t).month + 1]

\* day d exists in the month of t and in the month after it
ValidInBothMonths(d, t) ==
    /\ d >= 1
    /\ d <= DaysInMonth(Fields(t).year, Fields(t).month)
    /\ d <= DaysInMonth(FollowingMonth(t).year, FollowingMonth(t).month)

\* C24: for monthly with a day d that exists in both months concerned and
\* time HH:MM, compute_next_run returns day d, HH:MM of last_run's month
\* when that is strictly after last_run, else day d, HH:MM of the following
\* month, which after December is January of the next year.
C24_MonthlyThisOrNextMonth ==
    IsMonthlyCall /\ ValidInBothMonths(computed.schedule_config.day, LastRunOf(computed)) =>
        LET d    == computed.schedule_config.day
            hm   == HourMinute(Get(computed.schedule_config, "time", T0000))
            l    == LastRunOf(computed)
            this == At(Fields(l).year, Fields(l).month, d, hm[1], hm[2], 0)
            next == At(FollowingMonth(l).year, FollowingMonth(l).month, d, hm[1], hm[2], 0)
        IN  /\ computed.at = "returned"
            /\ computed.result = IF this > l THEN this ELSE next

\* monthly on day 1 at 00:00 with a last run on 2024-12-15: 2025-01-01 00:00
C24_Witness ==
    /\ computed.at = "returned"
    /\ computed.schedule_type = MONTHLY
    /\ computed.schedule_config = [day |-> 1, time |-> T0000]
    /\ computed.last_run = At(2024, 12, 15, 0, 0, 0)
    /\ computed.result = At(2025, 1, 1, 0, 0, 0)

\* C25: compute_next_run for monthly does not raise on a day that the
\* target month does not have; it returns the last day of that month at
\* HH:MM.
C25_MonthlyClamps ==
    IsMonthlyCall /\ computed.schedule_config.day \in 1..31 =>
        LET d    == computed.schedule_config.day
            hm   == HourMinute(Get(computed.schedule_config, "time", T0000))
            l    == LastRunOf(computed)
            last == DaysInMonth(Fields(computed.result).year, Fields(computed.result).month)
        IN  /\ computed.at = "returned"
            /\ computed.result > l
            /\ IsAtTimeOfDay(computed.result, hm)
            /\ Fields(computed.result).day = IF d <= last THEN d ELSE last

\* the call names no known kind, or a kind that needs params and has none
IsFallbackCall ==
    /\ CallEnded
    /\ \/ computed.schedule_type \notin {DAILY, HOURLY, INTERVAL_SECONDS, MONTHLY}
       \/ /\ computed.schedule_type \in {DAILY, INTERVAL_SECONDS, MONTHLY}
          /\ computed.schedule_config = <<>>

\* C26: for a kind that is none of daily, hourly, interval_seconds and
\* monthly, and for daily, interval_seconds or monthly with empty or
\* missing params, compute_next_run returns last_run + 1 day and never
\* raises.
C26_FallbackOneDay ==
    IsFallbackCall =>
        /\ computed.at = "returned"
        /\ computed.result = LastRunOf(computed) + Days(1)

\* an unknown kind with a last run in the last second of 2024
C26_Witness ==
    /\ IsFallbackCall
    /\ computed.schedule_type = "weekly"
    /\ computed.last_run = At(2024, 12, 31, 23, 59, 59)
    /\ computed.result = At(2025, 1, 1, 23, 59, 59)

\* daily without params and a last run at 06:59:59 gives 06:59:59 of the
\* next day, not midnight
C26_WitnessNoParams ==
    /\ IsFallbackCall
    /\ computed.schedule_type = DAILY
    /\ computed.last_run = At(2024, 1, 31, 6, 59, 59)
    /\ computed.result = At(2024, 2, 1, 6, 59, 59)

\* C27: update_after_run on a name without a row changes nothing and
\* returns without error, so get_next_run_from_db keeps returning None for
\* the name and every re-arm of a task that has no row uses delay 0.
C27_NoRowStep ==
    \A i \in TimerIds :
        timers[i].name \notin DOMAIN store =>
            /\ RunEnds(i) =>
                 /\ store' = store
                 /\ timers'[i].update # "raised"
                 /\ get_next_run_from_db(store', timers[i].name) = None
            /\ RearmBy(i) =>
                 \A j \in TimerIds :
                    NewlyArmed(j) /\ timers'[j].name = timers[i].name =>
                        /\ timers'[j].delay = 0
                        /\ timers'[j].scheduled_time = now

C27_NoRowNoChange == [][C27_NoRowStep]_vars

\* a task without a row whose runnable called update_after_run has been
\* armed again with delay 0
C27_Witness ==
    \E i \in TimerIds :
        /\ timers[i].callback = "registered"
        /\ timers[i].name \notin DOMAIN store
        /\ timers[i].name \in DOMAIN tasks
        /\ tasks[timers[i].name] = i
        /\ IsPending(timers[i])
        /\ timers[i].last_run # None
        /\ timers[i].delay = 0

\* name has a timer that is waiting, or whose callback is under way
Live(name) ==
    \E i \in TimerIds :
        timers[i].name = name /\ (IsPending(timers[i]) \/ IsInFlight(timers[i]))

\* timer i of the registered name fires in this step while the stored
\* config of name is None
FiresWithNone(i, name) ==
    /\ Fire(i)
    /\ timers[i].name = name
    /\ timers[i].callback = "registered"
    /\ name \in DOMAIN registered_tasks
    /\ StoredConfig(registered_config, name)[1] = Null

C28_NoneConfigStep ==
    \A n \in TaskNames :
        /\ n \in DOMAIN registered_tasks /\ ScheduleRegisteredTask(n, <<Null, Null>>) =>
              /\ n \in DOMAIN tasks'
              /\ IsPending(timers'[tasks'[n]])
              /\ timers'[tasks'[n]].last_run = None
              /\ StoredConfig(registered_config', n)[1] = Null
        /\ \A i \in TimerIds :
              FiresWithNone(i, n) =>
                  /\ ~IsInFlight(timers'[i])
                  /\ timers'[i].outcome = ""
                  /\ store' = store
                  /\ \A j \in TimerIds : ~IsPending(timers'[j]) \/ timers'[j].name # n
        /\ ~Live(n) /\ (\E j \in TimerIds : NewlyArmed(j) /\ timers'[j].name = n) =>
              calls' # calls \/ boots' # boots

\* C28: schedule_registered_task for a registered name with config None
\* arms a timer; when that timer fires the runnable is not invoked and no
\* new timer is armed; afterwards only a call arms a timer for the name
\* again.
C28_NoneConfigEndsLoop == [][C28_NoneConfigStep]_vars

\* the timer armed with config None has fired: its thread has ended, the
\* runnable was never called, and the name has nothing armed
C28_Witness ==
    \E n \in TaskNames :
        /\ n \in DOMAIN registered_tasks
        /\ StoredConfig(registered_config, n)[1] = Null
        /\ n \in DOMAIN tasks
        /\ timers[tasks[n]].state = "done"
        /\ timers[tasks[n]].callback = "registered"
        /\ timers[tasks[n]].outcome = ""
        /\ timers[tasks[n]].last_run # None
        /\ ~Live(n)
        /\ ~stopped

\* the step holds a call of ensure_scheduled without next_run_at for name n
\* with schedule s: a call of the running process, or the one the start-up
\* makes after a restart
EnsuresWithoutNextRun(n, s) ==
    \/ ensure_scheduled(n, s[1], s[2], None)
    \/ CrashRestart(n, s[1], s[2], <<"config", "config_data">>)

C30_EnsureStep ==
    \A n \in TaskNames, s \in SchedInputs :
        n \in DOMAIN store /\ EnsuresWithoutNextRun(n, s) =>
            /\ store'[n].schedule_type = s[1]
            /\ store'[n].schedule_config = s[2]
            /\ store'[n].next_run_at = store[n].next_run_at
            /\ store'[n].last_run_at = store[n].last_run_at
            /\ store'[n].last_error = store[n].last_error
            /\ \A m \in DOMAIN store \ {n} : store'[m] = store[m]
            /\ upsert_task_schedule(store', n, s[1], s[2], None, None, Null) = store'

C29_UnreadableStep ==
    ~readable =>
        /\ \A n \in TaskNames :
              n \in DOMAIN registered_tasks /\ (\E c \in ConfigInputs : ScheduleRegisteredTask(n, c)) =>
                  /\ n \in DOMAIN tasks'
                  /\ IsPending(timers'[tasks'[n]])
                  /\ timers'[tasks'[n]].delay = 0
                  /\ timers'[tasks'[n]].scheduled_time = now
        /\ \A i \in TimerIds :
              /\ RunEnds(i) /\ timers'[i].outcome = "ok" =>
                    timers'[i].update = "raised" /\ store' = store
              /\ RearmBy(i) /\ StoredConfig(registered_config, timers[i].name)[1] # Null =>
                    LET n == timers[i].name
                    IN  /\ n \in DOMAIN tasks'
                        /\ tasks'[n] # i
                        /\ IsPending(timers'[tasks'[n]])
                        /\ timers'[tasks'[n]].delay = 0
                        /\ timers'[tasks'[n]].scheduled_time = now

\* C29: get_next_run_from_db never raises; when the store cannot be read it
\* returns None as for a missing row, so schedule_registered_task arms the
\* task with delay 0, and while the store stays unreadable each fire is
\* followed by another arming with delay 0.
C29_UnreadableMeansNow ==
    /\ [](~readable => \A n \in TaskNames : get_next_run_from_db(store, n) = None)
    /\ [][C29_UnreadableStep]_vars

\* the store is out of reach, the row holds a next run that has not come,
\* and the task has fired and is armed again for this instant
C29_Witness ==
    \E n \in DOMAIN tasks \cap DOMAIN store :
        /\ ~readable
        /\ store[n].next_run_at # None
        /\ store[n].next_run_at >= now + Seconds(1)
        /\ IsPending(timers[tasks[n]])
        /\ timers[tasks[n]].last_run # None
        /\ timers[tasks[n]].delay = 0
        /\ timers[tasks[n]].scheduled_time = now

====
